---- MODULE Spec2Model ----
(***************************************************************************)
(* Model of the mod-configuration helpers of the Project Zomboid server    *)
(* image: process_mods.py (topological ordering of Mod IDs, map conflict   *)
(* checks, the main pipeline) and scripts/validate_maps.py.                *)
(*                                                                         *)
(* Mod IDs are opaque strings in the program; the code only compares them  *)
(* for equality and hashes them.  Here a Mod ID is a natural number.       *)
(***************************************************************************)
EXTENDS Integers, Sequences, FiniteSets, TLC

VARIABLES
    mod_ids,        \* ensure_topological_order: the declared order (list)
    requires_map,   \* ensure_topological_order: mod_id -> list of required ids
    pc,             \* position inside ensure_topological_order / the process
    prereqs,        \* mod_id -> set of effective prerequisites
    in_degree,      \* Kahn: mod_id -> number of unemitted prerequisites
    dependents,     \* Kahn: mod_id -> list of mods that require it
    heap,           \* Kahn: set of (original_pos, mod_id) entries
    result,         \* Kahn: the emitted order / the returned order
    reorder_notes,  \* returned notes, one (mod_id, from, to) per moved mod
    exit_status,    \* process exit status (meaningful when pc = "exit")
    error,          \* the message _fatal printed, as a record
    workshop_root,  \* the workshop cache: workshop id -> item directory
    workshop_ids,   \* the workshop ids parsed from mods.txt (list, distinct)
    tiledef_conflicts,      \* result of process_mods check_tiledef_conflicts
    map_coord_conflicts,    \* result of process_mods check_map_coord_conflicts
    vm_tiledef_conflicts,   \* result of validate_maps check_tiledef_conflicts
    vm_map_conflicts,       \* result of validate_maps check_map_conflicts
    scan_pc,        \* which of the conflict checks have run
    mods_txt_exists,    \* main: mods.txt exists
    ini_exists,         \* main: the INI file exists
    mods_txt,       \* content of mods.txt: list of lines
    ini,            \* content of the INI file: list of lines
    public_name,    \* main: the --public-name option (NoPublicName: not given)
    workshop_to_mods,   \* main: workshop id -> mod ids found on disk
    all_maps,       \* main: the entries of Map=
    stdout,         \* main: the messages printed
    writes,         \* the files written so far, in order, with their content
    ini_tool,       \* stand-alone INI rewrite: the function applied
    ini_runs,       \* stand-alone INI rewrite: applications so far
    map_csv_given,  \* rewrite_ini_keys: map_csv is not None
    original,       \* INI rewrite: the text read before the last rewrite
    output_lines,   \* INI rewrite: the text handed to write_text
    write_pc,       \* INI rewrite: position inside the write step
    rewrite_runs,   \* consecutive runs over one mods.txt: runs so far
    blocks_read,    \* rewrite_mods_txt: the blocks parsed before writing
    prev_mods_txt,  \* consecutive runs: mods.txt as the previous run left it
    prev_ini,       \* consecutive runs: the INI as the previous run left it
    prev_writes,    \* consecutive runs: the writes of the previous run
    cache_changed,  \* consecutive runs: an item was pruned between runs
    registry,       \* init steps: the "mods" list of the registry mods.json
    step_pc,        \* init steps: position of the step program being run
    step_exit,      \* init steps: exit status of the step program
    sync_failures,  \* test_modinit_ini_sync: the failures it collected
    content_root,   \* download: workshop.contentRoot of the registry
    on_disk,        \* download: the item directories in the content directory
    to_install,     \* download: the planned workshop IDs
    next_wid,       \* download: position of the loop over to_install
    installed,      \* download: installCompletedWorkshopIds
    failed,         \* download: installFailedWorkshopIds
    attempts,       \* download: the workshop IDs handed to steamcmd, in order
    map_dirs,       \* map step: the media/maps directories of each item
    map_sources,    \* map step: the MapSource list of scan_maps
    claims,         \* map step: the MapCellClaim list of discover_cell_claims
    prev_exit,      \* invocations in a row: exit status of the previous one
    prev_failure    \* invocations in a row: kind of error of the previous one

topoVars == <<mod_ids, requires_map, pc, prereqs, in_degree, dependents, heap,
              result, reorder_notes, exit_status, error>>

scanVars == <<workshop_root, workshop_ids, tiledef_conflicts,
              map_coord_conflicts, vm_tiledef_conflicts, vm_map_conflicts,
              scan_pc>>

mainVars == <<mods_txt_exists, ini_exists, mods_txt, ini, public_name,
              workshop_to_mods, all_maps, stdout, writes>>

toolVars == <<ini_tool, ini_runs, map_csv_given, original, output_lines,
              write_pc, rewrite_runs, blocks_read, prev_mods_txt, prev_ini,
              prev_writes, cache_changed, registry, step_pc, step_exit,
              sync_failures, content_root, on_disk, to_install, next_wid,
              installed, failed, attempts, map_dirs, map_sources, claims,
              prev_exit, prev_failure>>

stepVars == <<registry, step_pc, step_exit, sync_failures, content_root,
              on_disk, to_install, next_wid, installed, failed, attempts,
              map_dirs, map_sources, claims, prev_exit, prev_failure>>

vars == <<topoVars, scanVars, mainVars, toolVars>>

(***************************************************************************)
(* Bounds of the checked inputs.                                           *)
(***************************************************************************)
NumMods == 3        \* Mod IDs of the exhaustive family: 1..NumMods
MaxReqs == 3        \* total number of require= entries over all mod.info
MaxChain == 11      \* longest ring / chain of the long-input family
NumItems == 3       \* workshop items of the conflict-check inputs
MaxIniLen == 4      \* lines of the INI documents given to the rewriters
MaxIniRuns == 2     \* applications of one INI rewriter in a row
MaxWriteLen == 2    \* lines of an INI document in the write step
MaxModsLen == 4     \* lines of mods.txt given to consecutive runs
MaxRewriteRuns == 2 \* consecutive runs over one mods.txt

\* Length of one require= list in the exhaustive family.
ReqLens == {0, 1, 2}

\* The number of unresolved mods the cycle message lists.
CycleSampleCap == 10

(***************************************************************************)
(* Helpers over sequences.                                                 *)
(***************************************************************************)
ToSet(s) == {s[i] : i \in 1..Len(s)}

IsDistinct(s) == \A i, j \in 1..Len(s) : i # j => s[i] # s[j]

Min2(a, b) == IF a < b THEN a ELSE b

\* Python's {mid: i for i, mid in enumerate(mod_ids)} (0-based positions).
PosIn(s, x) == (CHOOSE i \in 1..Len(s) : s[i] = x) - 1

original_pos(m) == PosIn(mod_ids, m)

NoError == [kind |-> "none"]

\* args.public_name when the option is absent (the empty string)
NoPublicName == 0

(***************************************************************************)
(* _fatal: print the message, exit with status 1.                          *)
(***************************************************************************)
Fatal(msg) ==
    /\ pc' = "exit"
    /\ exit_status' = 1
    /\ error' = msg

(***************************************************************************)
(* ensure_topological_order, lines 489-501: the effective prerequisite     *)
(* sets.  The loops run in list order and stop at the first known          *)
(* prerequisite that is not listed.                                        *)
(***************************************************************************)
RequiresOf(rm, m) == IF m \in DOMAIN rm THEN rm[m] ELSE <<>>

\* The dependency loop with "continue" in place of the _fatal call.
RECURSIVE DepsLoopDropMissing(_, _, _, _, _)
DepsLoopDropMissing(deps, i, acc, rm, idset) ==
    IF i > Len(deps) THEN [fatal |-> FALSE, dep |-> 0, set |-> acc]
    ELSE IF deps[i] \notin DOMAIN rm \/ deps[i] \notin idset
         THEN DepsLoopDropMissing(deps, i + 1, acc, rm, idset)
    ELSE DepsLoopDropMissing(deps, i + 1, acc \cup {deps[i]}, rm, idset)

\* The dependency loop without the "dep not in requires_map" test.
RECURSIVE DepsLoopNoKnownTest(_, _, _, _, _)
DepsLoopNoKnownTest(deps, i, acc, rm, idset) ==
    IF i > Len(deps) THEN [fatal |-> FALSE, dep |-> 0, set |-> acc]
    ELSE IF deps[i] \notin idset
         THEN [fatal |-> TRUE, dep |-> deps[i], set |-> acc]
    ELSE DepsLoopNoKnownTest(deps, i + 1, acc \cup {deps[i]}, rm, idset)

\* for dep in requires_map.get(mod_id, []): skip the unknown, fail on the
\* known one that is not listed, collect the rest.
RECURSIVE DepsLoop(_, _, _, _, _)
DepsLoop(deps, i, acc, rm, idset) ==
    IF i > Len(deps) THEN [fatal |-> FALSE, dep |-> 0, set |-> acc]
    ELSE IF deps[i] \notin DOMAIN rm
         THEN DepsLoop(deps, i + 1, acc, rm, idset)
    ELSE IF deps[i] \notin idset
         THEN [fatal |-> TRUE, dep |-> deps[i], set |-> acc]
    ELSE DepsLoop(deps, i + 1, acc \cup {deps[i]}, rm, idset)

RECURSIVE ModsLoop(_, _, _, _)
ModsLoop(ids, j, acc, rm) ==
    IF j > Len(ids) THEN [fatal |-> FALSE, mod |-> 0, dep |-> 0, prereqs |-> acc]
    ELSE LET r == DepsLoop(RequiresOf(rm, ids[j]), 1, {}, rm, ToSet(ids))
         IN  IF r.fatal
             THEN [fatal |-> TRUE, mod |-> ids[j], dep |-> r.dep, prereqs |-> acc]
             ELSE ModsLoop(ids, j + 1, [acc EXCEPT ![ids[j]] = r.set], rm)

BuildPrereqsOf(ids, rm) == ModsLoop(ids, 1, [m \in ToSet(ids) |-> {}], rm)

BuildPrereqs ==
    /\ pc = "build"
    /\ LET b == BuildPrereqsOf(mod_ids, requires_map)
       IN  IF b.fatal
           THEN /\ Fatal([kind |-> "missing", mod |-> b.mod, dep |-> b.dep])
                /\ UNCHANGED prereqs
           ELSE /\ prereqs' = b.prereqs
                /\ pc' = "fast"
                /\ UNCHANGED <<exit_status, error>>
    /\ UNCHANGED <<mod_ids, requires_map, in_degree, dependents, heap, result,
                   reorder_notes>>
    /\ UNCHANGED scanVars
    /\ UNCHANGED mainVars
    /\ UNCHANGED toolVars

(***************************************************************************)
(* Lines 503-509: the fast check.                                          *)
(***************************************************************************)
\* The fast check with the comparison the wrong way round.
OrderValidInverted ==
    \A m \in ToSet(mod_ids) : \A dep \in prereqs[m] :
        original_pos(m) < original_pos(dep)

OrderValid ==
    \A m \in ToSet(mod_ids) : \A dep \in prereqs[m] :
        original_pos(dep) < original_pos(m)

FastCheck ==
    /\ pc = "fast"
    /\ IF OrderValid
       THEN /\ result' = mod_ids
            /\ reorder_notes' = <<>>
            /\ pc' = "returned"
       ELSE /\ pc' = "kahn_init"
            /\ UNCHANGED <<result, reorder_notes>>
    /\ UNCHANGED <<mod_ids, requires_map, prereqs, in_degree, dependents, heap,
                   exit_status, error>>
    /\ UNCHANGED scanVars
    /\ UNCHANGED mainVars
    /\ UNCHANGED toolVars

(***************************************************************************)
(* Lines 511-521: in-degrees, dependents lists, the initial heap.          *)
(***************************************************************************)
\* dependents[dep] receives mod_id while mod_ids is walked in order, so each
\* list is in declared order.
RECURSIVE DependentsOf(_, _, _)
DependentsOf(ids, j, dep) ==
    IF j > Len(ids) THEN <<>>
    ELSE IF dep \in prereqs[ids[j]]
         THEN <<ids[j]>> \o DependentsOf(ids, j + 1, dep)
         ELSE DependentsOf(ids, j + 1, dep)

HeapEntry(m) == <<original_pos(m), m>>

KahnInit ==
    /\ pc = "kahn_init"
    /\ in_degree' = [m \in ToSet(mod_ids) |-> Cardinality(prereqs[m])]
    /\ dependents' = [m \in ToSet(mod_ids) |-> DependentsOf(mod_ids, 1, m)]
    /\ heap' = {HeapEntry(m) : m \in {x \in ToSet(mod_ids) : prereqs[x] = {}}}
    /\ result' = <<>>
    /\ pc' = "kahn"
    /\ UNCHANGED <<mod_ids, requires_map, prereqs, reorder_notes, exit_status,
                   error>>
    /\ UNCHANGED scanVars
    /\ UNCHANGED mainVars
    /\ UNCHANGED toolVars

(***************************************************************************)
(* Lines 524-530: one iteration of the while loop.                         *)
(***************************************************************************)
\* Python compares heap tuples lexicographically.
TupleLess(a, b) == a[1] < b[1] \/ (a[1] = b[1] /\ a[2] < b[2])

\* A pop that takes the largest entry (a max-heap).
HeapMax(h) == CHOOSE e \in h : \A o \in h : o = e \/ TupleLess(o, e)

\* heapq.heappop: the smallest entry.
HeapMin(h) == CHOOSE e \in h : \A o \in h : o = e \/ TupleLess(e, o)

\* The release loop without the "== 0" test: every dependent is pushed.
RECURSIVE ReleaseNoZeroTest(_, _, _, _)
ReleaseNoZeroTest(deps, i, deg, h) ==
    IF i > Len(deps) THEN [deg |-> deg, heap |-> h]
    ELSE ReleaseNoZeroTest(deps, i + 1, [deg EXCEPT ![deps[i]] = @ - 1],
                           h \cup {HeapEntry(deps[i])})

\* for dependent in dependents[mid]: decrement, push when it reaches zero.
RECURSIVE Release(_, _, _, _)
Release(deps, i, deg, h) ==
    IF i > Len(deps) THEN [deg |-> deg, heap |-> h]
    ELSE LET d == deps[i]
             n == deg[d] - 1
         IN  Release(deps, i + 1, [deg EXCEPT ![d] = n],
                     IF n = 0 THEN h \cup {HeapEntry(d)} ELSE h)

KahnPop ==
    /\ pc = "kahn"
    /\ heap # {}
    /\ LET e == HeapMin(heap)
           mid == e[2]
           r == Release(dependents[mid], 1, in_degree, heap \ {e})
       IN  /\ result' = Append(result, mid)
           /\ in_degree' = r.deg
           /\ heap' = r.heap
    /\ UNCHANGED <<mod_ids, requires_map, pc, prereqs, dependents,
                   reorder_notes, exit_status, error>>
    /\ UNCHANGED scanVars
    /\ UNCHANGED mainVars
    /\ UNCHANGED toolVars

(***************************************************************************)
(* Lines 532-547: cycle report, or the reorder notes and the return.       *)
(***************************************************************************)
RECURSIVE Filter(_, _, _)
\* [m for m in s if m not in drop], from index i on
Filter(s, i, drop) ==
    IF i > Len(s) THEN <<>>
    ELSE IF s[i] \in drop THEN Filter(s, i + 1, drop)
         ELSE <<s[i]>> \o Filter(s, i + 1, drop)

\* if len(result) != len(mod_ids)
ResidualNonEmpty(res, ids) == Len(res) # Len(ids)

\* The message with the number of listed mods in place of the total.
CycleMessageListedCount(cycle_mods) ==
    [kind   |-> "cycle",
     count  |-> Min2(CycleSampleCap, Len(cycle_mods)),
     listed |-> SubSeq(cycle_mods, 1, Min2(CycleSampleCap, Len(cycle_mods))),
     more   |-> Len(cycle_mods) > CycleSampleCap]

CycleMessage(cycle_mods) ==
    [kind   |-> "cycle",
     count  |-> Len(cycle_mods),
     listed |-> SubSeq(cycle_mods, 1, Min2(CycleSampleCap, Len(cycle_mods))),
     more   |-> Len(cycle_mods) > CycleSampleCap]

RECURSIVE NotesOf(_, _, _)
NotesOf(ids, i, res) ==
    IF i > Len(ids) THEN <<>>
    ELSE IF PosIn(ids, ids[i]) # PosIn(res, ids[i])
         THEN <<[mod |-> ids[i], from |-> PosIn(ids, ids[i]),
                 to |-> PosIn(res, ids[i])]>> \o NotesOf(ids, i + 1, res)
         ELSE NotesOf(ids, i + 1, res)

KahnFinish ==
    /\ pc = "kahn"
    /\ heap = {}
    /\ IF ResidualNonEmpty(result, mod_ids)
       THEN /\ Fatal(CycleMessage(Filter(mod_ids, 1, ToSet(result))))
            /\ UNCHANGED reorder_notes
       ELSE /\ reorder_notes' = NotesOf(mod_ids, 1, result)
            /\ pc' = "returned"
            /\ UNCHANGED <<exit_status, error>>
    /\ UNCHANGED <<mod_ids, requires_map, prereqs, in_degree, dependents, heap,
                   result>>
    /\ UNCHANGED scanVars
    /\ UNCHANGED mainVars
    /\ UNCHANGED toolVars

(***************************************************************************)
(* The workshop cache.  A workshop item directory holds mod.info files and *)
(* .lotheader files at any depth.  modinfos is the list of its mod.info    *)
(* files in the order rglob yields them, each with its name= value ("" if  *)
(* it has no name= line) and the numbers of its tiledef= lines in file     *)
(* order; lotheaders is the list of the (cx, cy) of the files named        *)
(* <cx>_<cy>.lotheader in the order rglob yields them.                     *)
(***************************************************************************)
NoName == ""

AbsentItem == [is_dir |-> FALSE, modinfos |-> <<>>, lotheaders |-> <<>>]

ItemDir(infos, lots) == [is_dir |-> TRUE, modinfos |-> infos, lotheaders |-> lots]

ModInfo(name, tiledefs) == [name |-> name, tiledefs |-> tiledefs]

\* _mod_label_for_dir: "<name> [<dir>]" from the first mod.info rglob yields,
\* the bare directory name when there is none or it has no name= line.
mod_label_for_dir(root, wid) ==
    LET infos == root[wid].modinfos
    IN  IF Len(infos) > 0 /\ infos[1].name # NoName
        THEN [name |-> infos[1].name, dir |-> wid]
        ELSE [name |-> NoName, dir |-> wid]

\* validate_maps.mod_name_for_dir: the same function under another name.
mod_name_for_dir(root, wid) ==
    LET infos == root[wid].modinfos
    IN  IF Len(infos) > 0 /\ infos[1].name # NoName
        THEN [name |-> infos[1].name, dir |-> wid]
        ELSE [name |-> NoName, dir |-> wid]

\* number_to_mods[num].append(label) on a defaultdict(list)
AppendTo(d, key, label) ==
    IF key \in DOMAIN d
    THEN [d EXCEPT ![key] = Append(@, label)]
    ELSE [k \in DOMAIN d \cup {key} |-> IF k = key THEN <<label>> ELSE d[k]]

\* {n: mods for n, mods in d.items() if len(mods) > 1}
MoreThanOne(d) == [k \in {x \in DOMAIN d : Len(d[x]) > 1} |-> d[k]]

EmptyDict == [k \in {} |-> <<>>]

\* The claims of one item, without the "not in seen" test.
RECURSIVE ClaimsOfItemNoSeen(_, _, _, _, _)
ClaimsOfItemNoSeen(vals, i, label, d, seen) ==
    IF i > Len(vals) THEN [dict |-> d, seen |-> seen]
    ELSE ClaimsOfItemNoSeen(vals, i + 1, label, AppendTo(d, vals[i], label),
                            seen \cup {vals[i]})

\* if num not in seen: number_to_mods[num].append(label); seen.add(num)
RECURSIVE ClaimsOfItem(_, _, _, _, _)
ClaimsOfItem(vals, i, label, d, seen) ==
    IF i > Len(vals) THEN [dict |-> d, seen |-> seen]
    ELSE IF vals[i] \in seen
         THEN ClaimsOfItem(vals, i + 1, label, d, seen)
         ELSE ClaimsOfItem(vals, i + 1, label, AppendTo(d, vals[i], label),
                           seen \cup {vals[i]})

\* for modinfo_path in item_dir.rglob("mod.info"): for line in ...: the
\* tiledef numbers of all mod.info files of the item, in reading order
RECURSIVE TiledefNumbers(_, _)
TiledefNumbers(infos, i) ==
    IF i > Len(infos) THEN <<>>
    ELSE infos[i].tiledefs \o TiledefNumbers(infos, i + 1)

\* process_mods.check_tiledef_conflicts: for wid in workshop_ids
RECURSIVE TiledefLoop(_, _, _, _)
TiledefLoop(root, wids, i, d) ==
    IF i > Len(wids) THEN d
    ELSE IF ~root[wids[i]].is_dir
         THEN TiledefLoop(root, wids, i + 1, d)
         ELSE TiledefLoop(root, wids, i + 1,
                 ClaimsOfItem(TiledefNumbers(root[wids[i]].modinfos, 1), 1,
                              mod_label_for_dir(root, wids[i]), d, {}).dict)

check_tiledef_conflicts(root, wids) ==
    MoreThanOne(TiledefLoop(root, wids, 1, EmptyDict))

\* The item loop with one seen set for all items (never reset).
RECURSIVE SharedSeenLoop(_, _, _, _, _)
SharedSeenLoop(root, wids, i, d, seen) ==
    IF i > Len(wids) THEN d
    ELSE IF ~root[wids[i]].is_dir
         THEN SharedSeenLoop(root, wids, i + 1, d, seen)
         ELSE LET r == ClaimsOfItem(root[wids[i]].lotheaders, 1,
                                    mod_label_for_dir(root, wids[i]), d, seen)
              IN  SharedSeenLoop(root, wids, i + 1, r.dict, r.seen)

CoordLoopSharedSeen(root, wids, i, d) == SharedSeenLoop(root, wids, i, d, {})

\* process_mods.check_map_coord_conflicts: for wid in workshop_ids
RECURSIVE CoordLoop(_, _, _, _)
CoordLoop(root, wids, i, d) ==
    IF i > Len(wids) THEN d
    ELSE IF ~root[wids[i]].is_dir
         THEN CoordLoop(root, wids, i + 1, d)
         ELSE CoordLoop(root, wids, i + 1,
                 ClaimsOfItem(root[wids[i]].lotheaders, 1,
                              mod_label_for_dir(root, wids[i]), d, {}).dict)

check_map_coord_conflicts(root, wids) ==
    MoreThanOne(CoordLoop(root, wids, 1, EmptyDict))

\* validate_maps.check_tiledef_conflicts
RECURSIVE VmTiledefLoop(_, _, _, _)
VmTiledefLoop(root, wids, i, d) ==
    IF i > Len(wids) THEN d
    ELSE IF ~root[wids[i]].is_dir
         THEN VmTiledefLoop(root, wids, i + 1, d)
         ELSE VmTiledefLoop(root, wids, i + 1,
                 ClaimsOfItem(TiledefNumbers(root[wids[i]].modinfos, 1), 1,
                              mod_name_for_dir(root, wids[i]), d, {}).dict)

vm_check_tiledef_conflicts(root, wids) ==
    MoreThanOne(VmTiledefLoop(root, wids, 1, EmptyDict))

\* validate_maps.check_map_conflicts
RECURSIVE VmCoordLoop(_, _, _, _)
VmCoordLoop(root, wids, i, d) ==
    IF i > Len(wids) THEN d
    ELSE IF ~root[wids[i]].is_dir
         THEN VmCoordLoop(root, wids, i + 1, d)
         ELSE VmCoordLoop(root, wids, i + 1,
                 ClaimsOfItem(root[wids[i]].lotheaders, 1,
                              mod_name_for_dir(root, wids[i]), d, {}).dict)

vm_check_map_conflicts(root, wids) ==
    MoreThanOne(VmCoordLoop(root, wids, 1, EmptyDict))

(***************************************************************************)
(* mods.txt as a list of lines.  A line is classified by what the parser's *)
(* tests see after strip(): blank, a '#' comment, the block end '---', a   *)
(* 'Workshop ID: <id>' line, a 'Mod ID: <id>' line, or any other text.     *)
(***************************************************************************)
WorkshopLine(w) == [kind |-> "workshop", id |-> w]

ModLine(m) == [kind |-> "mod", id |-> m]

EndLine == [kind |-> "end", id |-> 0]

BlankLine == [kind |-> "blank", id |-> 0]

CommentLine == [kind |-> "comment", id |-> 0]

OtherLine == [kind |-> "other", id |-> 0]

ModBlock(w, mids) == [workshop_id |-> w, mod_ids |-> mids]

\* current.mod_ids.append(mid) on the last block of the list
AppendMod(blocks, mid) ==
    [blocks EXCEPT ![Len(blocks)] =
        ModBlock(@.workshop_id,
                 IF mid \in ToSet(@.mod_ids) THEN @.mod_ids
                 ELSE Append(@.mod_ids, mid))]

\* parse_mods_blocks: open says that current is the last block of blocks
RECURSIVE BlocksLoop(_, _, _, _)
BlocksLoop(lines, i, blocks, open) ==
    IF i > Len(lines) THEN blocks
    ELSE LET line == lines[i]
         IN  IF line.kind \in {"blank", "comment"}
             THEN BlocksLoop(lines, i + 1, blocks, open)
             ELSE IF line.kind = "end"
             THEN BlocksLoop(lines, i + 1, blocks, FALSE)
             ELSE IF line.kind = "workshop"
             THEN BlocksLoop(lines, i + 1,
                             Append(blocks, ModBlock(line.id, <<>>)), TRUE)
             ELSE IF ~open
             THEN BlocksLoop(lines, i + 1, blocks, open)
             ELSE IF line.kind = "mod"
             THEN BlocksLoop(lines, i + 1, AppendMod(blocks, line.id), open)
             ELSE BlocksLoop(lines, i + 1, blocks, open)

parse_mods_blocks(lines) == BlocksLoop(lines, 1, <<>>, FALSE)

\* append the elements of s not yet in acc, in order
RECURSIVE ExtendNew(_, _, _)
ExtendNew(acc, s, i) ==
    IF i > Len(s) THEN acc
    ELSE ExtendNew(IF s[i] \in ToSet(acc) THEN acc ELSE Append(acc, s[i]),
                   s, i + 1)

RECURSIVE ParseLoop(_, _, _, _)
ParseLoop(blocks, i, wids, mids) ==
    IF i > Len(blocks) THEN [workshop_ids |-> wids, mod_ids |-> mids]
    ELSE ParseLoop(blocks, i + 1,
                   ExtendNew(wids, <<blocks[i].workshop_id>>, 1),
                   ExtendNew(mids, blocks[i].mod_ids, 1))

parse_mods_txt(lines) == ParseLoop(parse_mods_blocks(lines), 1, <<>>, <<>>)

(***************************************************************************)
(* A mod.info file of a workshop item, as the functions of process_mods    *)
(* read it: its path rank (collect_mod_info visits the files sorted by     *)
(* path, the other scans in rglob order), id= (NoId when absent or empty), *)
(* require= as the list of its comma separated entries, name=, the numbers *)
(* of its tiledef= lines, and the directories of media/maps beside it.     *)
(***************************************************************************)
NoId == 0

ModInfoFile(path, id, require, name, tiledefs, maps) ==
    [path |-> path, id |-> id, require |-> require, name |-> name,
     tiledefs |-> tiledefs, maps |-> maps]

\* sorted(item_dir.rglob("mod.info"))
RECURSIVE SortedByPath(_)
SortedByPath(infos) ==
    IF infos = <<>> THEN <<>>
    ELSE LET k == CHOOSE i \in 1..Len(infos) :
                     \A j \in 1..Len(infos) : infos[i].path <= infos[j].path
         IN  <<infos[k]>> \o
             SortedByPath([j \in 1..(Len(infos) - 1) |->
                              IF j < k THEN infos[j] ELSE infos[j + 1]])

\* d[key] = value on a dict
Put(d, key, value) ==
    [k \in DOMAIN d \cup {key} |-> IF k = key THEN value ELSE d[k]]

\* collect_mod_info, the loop over the mod.info files of one item
RECURSIVE InfoLoop(_, _, _, _)
InfoLoop(infos, i, requires, item_mods) ==
    IF i > Len(infos) THEN [requires |-> requires, item_mods |-> item_mods]
    ELSE LET mod_id == infos[i].id
         IN  IF mod_id = NoId
             THEN InfoLoop(infos, i + 1, requires, item_mods)
             ELSE InfoLoop(infos, i + 1,
                      IF mod_id \in DOMAIN requires THEN requires
                      ELSE Put(requires, mod_id, infos[i].require),
                      IF mod_id \in ToSet(item_mods) THEN item_mods
                      ELSE Append(item_mods, mod_id))

\* collect_mod_info, the loop over the workshop ids
RECURSIVE CollectLoop(_, _, _, _, _)
CollectLoop(root, wids, i, requires, w2m) ==
    IF i > Len(wids)
    THEN [requires_map |-> requires, workshop_to_mods |-> w2m]
    ELSE IF ~root[wids[i]].is_dir
         THEN CollectLoop(root, wids, i + 1, requires, w2m)
         ELSE LET r == InfoLoop(SortedByPath(root[wids[i]].modinfos), 1,
                                requires, <<>>)
              IN  CollectLoop(root, wids, i + 1, r.requires,
                      IF r.item_mods # <<>>
                      THEN Put(w2m, wids[i], r.item_mods) ELSE w2m)

collect_mod_info(root, wids) == CollectLoop(root, wids, 1, EmptyDict, EmptyDict)

\* VANILLA_MAPS; map names are numbers ordered as the strings are
VANILLA_MAPS == <<101, 102, 103, 104, 105>>

\* sorted(found)
RECURSIVE SortedList(_)
SortedList(S) ==
    IF S = {} THEN <<>>
    ELSE LET m == CHOOSE x \in S : \A y \in S : x <= y
         IN  <<m>> \o SortedList(S \ {m})

\* collect_workshop_maps: the map folders beside the mod.info files whose
\* id is active
MapsOfItem(item, active) ==
    UNION {item.modinfos[i].maps :
             i \in {j \in 1..Len(item.modinfos) :
                       /\ item.modinfos[j].id # NoId
                       /\ item.modinfos[j].id \in active}}

ActiveMaps(root, wids, active) ==
    UNION {MapsOfItem(root[w], active) :
             w \in {x \in ToSet(wids) : root[x].is_dir}}

collect_workshop_maps(root, wids, active) ==
    SortedList(ActiveMaps(root, wids, active))

\* [v for v in s if keep(v)]
RECURSIVE Select(_, _, _)
Select(s, i, keep) ==
    IF i > Len(s) THEN <<>>
    ELSE (IF s[i] \in keep THEN <<s[i]>> ELSE <<>>) \o Select(s, i + 1, keep)

(***************************************************************************)
(* rewrite_mods_txt.                                                       *)
(***************************************************************************)
DictGet(d, key) == IF key \in DOMAIN d THEN d[key] ELSE <<>>

\* {b.workshop_id: b.mod_ids for b in blocks}: the last block of an id wins
RECURSIVE BlockDict(_, _, _)
BlockDict(blocks, i, d) ==
    IF i > Len(blocks) THEN d
    ELSE BlockDict(blocks, i + 1,
                   Put(d, blocks[i].workshop_id, blocks[i].mod_ids))

\* the keys of mod_to_workshop
AttributedMods(w2m) == UNION {ToSet(w2m[w]) : w \in DOMAIN w2m}

\* sorted(s, key=lambda m: sorted_pos[m]) for a list s of listed mods
RECURSIVE SortedByPos(_, _)
SortedByPos(s, order) ==
    IF s = <<>> THEN <<>>
    ELSE LET k == CHOOSE i \in 1..Len(s) :
                     \A j \in 1..Len(s) :
                        \/ PosIn(order, s[i]) < PosIn(order, s[j])
                        \/ (PosIn(order, s[i]) = PosIn(order, s[j]) /\ i <= j)
         IN  <<s[k]>> \o
             SortedByPos([j \in 1..(Len(s) - 1) |->
                             IF j < k THEN s[j] ELSE s[j + 1]], order)

\* _group_for without the filter on mod_ids_set: all mods of the item
GroupForUnfiltered(wid, w2m, mod_ids_sorted) == DictGet(w2m, wid)

\* _group_for
group_for(wid, w2m, mod_ids_sorted) ==
    LET cache_mods == DictGet(w2m, wid)
    IN  IF cache_mods = <<>> THEN <<>>
        ELSE SortedByPos(Select(cache_mods, 1, ToSet(mod_ids_sorted)),
                         mod_ids_sorted)

\* the validation loop over workshop_ids, lines 404-415
RECURSIVE WarnLoop(_, _, _, _, _)
WarnLoop(wids, i, new_groups, w2m, original_block_mods) ==
    IF i > Len(wids) THEN <<>>
    ELSE (IF /\ new_groups[wids[i]] = <<>>
             /\ DictGet(w2m, wids[i]) = <<>>
             /\ DictGet(original_block_mods, wids[i]) = <<>>
          THEN <<wids[i]>> ELSE <<>>)
         \o WarnLoop(wids, i + 1, new_groups, w2m, original_block_mods)

\* existing_orphans, lines 420-423
RECURSIVE ExistingOrphans(_, _, _)
ExistingOrphans(blocks, i, wids) ==
    IF i > Len(blocks) THEN <<>>
    ELSE (IF blocks[i].workshop_id \notin ToSet(wids)
          THEN blocks[i].mod_ids ELSE <<>>)
         \o ExistingOrphans(blocks, i + 1, wids)

\* the lines written for the mods of one block or of the orphan section
ModLines(mids) == [i \in 1..Len(mids) |-> ModLine(mids[i])]

\* out_lines of the blocks when an item without mods gets no block
RECURSIVE BlockLinesSkipEmpty(_, _, _)
BlockLinesSkipEmpty(wids, i, new_groups) ==
    IF i > Len(wids) THEN <<>>
    ELSE (IF new_groups[wids[i]] = <<>> THEN <<>>
          ELSE <<WorkshopLine(wids[i])>> \o ModLines(new_groups[wids[i]])
               \o <<EndLine, BlankLine>>)
         \o BlockLinesSkipEmpty(wids, i + 1, new_groups)

\* out_lines of the blocks, lines 436-441
RECURSIVE BlockLines(_, _, _)
BlockLines(wids, i, new_groups) ==
    IF i > Len(wids) THEN <<>>
    ELSE <<WorkshopLine(wids[i])>> \o ModLines(new_groups[wids[i]])
         \o <<EndLine, BlankLine>>
         \o BlockLines(wids, i + 1, new_groups)

\* out_lines of the orphan section, lines 443-448
OrphanLines(new_orphans) ==
    IF new_orphans = <<>> THEN <<>>
    ELSE <<CommentLine>> \o ModLines(new_orphans) \o <<EndLine, BlankLine>>

\* "\n".join(out_lines).rstrip("\n") + "\n": the trailing empty lines go,
\* the text of no lines is one empty line
RECURSIVE JoinLines(_)
JoinLines(out_lines) ==
    IF out_lines = <<>> THEN <<BlankLine>>
    ELSE IF out_lines[Len(out_lines)] = BlankLine
         THEN JoinLines(SubSeq(out_lines, 1, Len(out_lines) - 1))
         ELSE out_lines

rewrite_mods_txt(lines, wids, mod_ids_sorted, w2m) ==
    LET blocks == parse_mods_blocks(lines)
        new_groups == [w \in ToSet(wids) |-> group_for(w, w2m, mod_ids_sorted)]
        new_orphans == Select(mod_ids_sorted, 1,
                              ToSet(mod_ids_sorted) \ AttributedMods(w2m))
        existing == BlockDict(blocks, 1, EmptyDict)
        existing_order == [i \in 1..Len(blocks) |-> blocks[i].workshop_id]
        existing_orphans == ExistingOrphans(blocks, 1, wids)
        warnings == WarnLoop(wids, 1, new_groups, w2m, existing)
        changed == \/ existing_order # wids
                   \/ \E w \in ToSet(wids) : DictGet(existing, w) # new_groups[w]
                   \/ existing_orphans # new_orphans
    IN  [changed |-> changed,
         warnings |-> warnings,
         lines |-> IF changed
                   THEN JoinLines(BlockLines(wids, 1, new_groups)
                                  \o OrphanLines(new_orphans))
                   ELSE lines]

(***************************************************************************)
(* The INI file as a list of lines.  A line is what splitlines(keepends)   *)
(* yields: kind says how the rewriters' tests classify it ("key" for an    *)
(* identifier followed by '=', "blank", "comment" for a leading '#',       *)
(* "cont" for any other text), key is the identifier in lower case,        *)
(* spelling the text up to and including '=', value the text after it, nl  *)
(* whether the line ends with a newline, and tail the text written behind  *)
(* an unterminated last line.  NUL bytes do not occur.                     *)
(***************************************************************************)
IniLine(kind, key, spelling, value, nl) ==
    [kind |-> kind, key |-> key, spelling |-> spelling, value |-> value,
     nl |-> nl, tail |-> <<>>]

KeyLine(key, spelling, value) == IniLine("key", key, spelling, value, TRUE)

\* output_lines.append(...) followed by "".join: text appended behind a last
\* line without newline continues that line
AppendLine(doc, line) ==
    IF doc # <<>> /\ ~doc[Len(doc)].nl
    THEN [doc EXCEPT ![Len(doc)] =
             [@ EXCEPT !.tail = Append(@, line), !.nl = line.nl]]
    ELSE Append(doc, line)

\* _is_continuation
is_continuation(line) == line.kind = "cont"

IsKey(line, key) == line.kind = "key" /\ line.key = key

\* The loop of update_ini without the skipping of continuation lines.
RECURSIVE IniLoopNoSkip(_, _, _, _, _, _, _)
IniLoopNoSkip(doc, i, out, mods_csv, workshop_csv, skip, wrote) ==
    IF i > Len(doc) THEN [out |-> out, wrote |-> wrote]
    ELSE IF IsKey(doc[i], "mods")
         THEN IniLoopNoSkip(doc, i + 1,
                            Append(out, KeyLine("mods", "Mods=", mods_csv)),
                            mods_csv, workshop_csv, TRUE, wrote \cup {"mods"})
         ELSE IF IsKey(doc[i], "workshopitems")
         THEN IniLoopNoSkip(doc, i + 1,
                            Append(out, KeyLine("workshopitems",
                                                "WorkshopItems=", workshop_csv)),
                            mods_csv, workshop_csv, TRUE,
                            wrote \cup {"workshopitems"})
         ELSE IniLoopNoSkip(doc, i + 1, Append(out, doc[i]), mods_csv,
                            workshop_csv, FALSE, wrote)

\* update_ini, the loop over the lines
RECURSIVE IniLoop(_, _, _, _, _, _, _)
IniLoop(doc, i, out, mods_csv, workshop_csv, skip, wrote) ==
    IF i > Len(doc) THEN [out |-> out, wrote |-> wrote]
    ELSE IF skip /\ is_continuation(doc[i])
         THEN IniLoop(doc, i + 1, out, mods_csv, workshop_csv, skip, wrote)
         ELSE IF IsKey(doc[i], "mods")
         THEN IniLoop(doc, i + 1, Append(out, KeyLine("mods", "Mods=", mods_csv)),
                      mods_csv, workshop_csv, TRUE, wrote \cup {"mods"})
         ELSE IF IsKey(doc[i], "workshopitems")
         THEN IniLoop(doc, i + 1,
                      Append(out, KeyLine("workshopitems", "WorkshopItems=",
                                          workshop_csv)),
                      mods_csv, workshop_csv, TRUE, wrote \cup {"workshopitems"})
         ELSE IniLoop(doc, i + 1, Append(out, doc[i]), mods_csv, workshop_csv,
                      FALSE, wrote)

update_ini(doc, mods_csv, workshop_csv) ==
    LET r == IniLoop(doc, 1, <<>>, mods_csv, workshop_csv, FALSE, {})
        o1 == IF "mods" \in r.wrote THEN r.out
              ELSE AppendLine(r.out, KeyLine("mods", "Mods=", mods_csv))
    IN  IF "workshopitems" \in r.wrote THEN o1
        ELSE AppendLine(o1, KeyLine("workshopitems", "WorkshopItems=",
                                    workshop_csv))

\* update_map_line, the loop over the lines
RECURSIVE MapLoop(_, _, _, _, _, _)
MapLoop(doc, i, out, map_csv, skip, wrote) ==
    IF i > Len(doc) THEN [out |-> out, wrote |-> wrote]
    ELSE IF skip /\ is_continuation(doc[i])
         THEN MapLoop(doc, i + 1, out, map_csv, skip, wrote)
         ELSE IF IsKey(doc[i], "map")
         THEN MapLoop(doc, i + 1, Append(out, KeyLine("map", "Map=", map_csv)),
                      map_csv, TRUE, TRUE)
         ELSE MapLoop(doc, i + 1, Append(out, doc[i]), map_csv, FALSE, wrote)

update_map_line(doc, map_csv) ==
    LET r == MapLoop(doc, 1, <<>>, map_csv, FALSE, FALSE)
    IN  IF r.wrote THEN r.out
        ELSE AppendLine(r.out, KeyLine("map", "Map=", map_csv))

\* update_public_name, the loop over the lines
RECURSIVE NameLoop(_, _, _, _, _)
NameLoop(doc, i, out, name, wrote) ==
    IF i > Len(doc) THEN [out |-> out, wrote |-> wrote]
    ELSE IF IsKey(doc[i], "publicname")
         THEN NameLoop(doc, i + 1,
                       Append(out, KeyLine("publicname", "PublicName=", <<name>>)),
                       name, TRUE)
         ELSE NameLoop(doc, i + 1, Append(out, doc[i]), name, wrote)

update_public_name(doc, name) ==
    LET r == NameLoop(doc, 1, <<>>, name, FALSE)
    IN  IF r.wrote THEN r.out
        ELSE AppendLine(r.out, KeyLine("publicname", "PublicName=", <<name>>))

(***************************************************************************)
(* init/update_server_ini.py rewrite_ini_keys and                          *)
(* init/update_server_ini_map.py rewrite_ini_map_key.                      *)
(***************************************************************************)
\* _is_continuation_line (the same test in both files)
is_continuation_line(line) == line.kind = "cont"

\* rewrite_ini_keys, the loop over the lines; given says map_csv is not None
RECURSIVE KeysLoop(_, _, _, _, _, _, _, _, _)
KeysLoop(doc, i, out, mods_csv, workshop_csv, given, map_csv, skipping, wrote) ==
    IF i > Len(doc) THEN [out |-> out, wrote |-> wrote]
    ELSE IF skipping /\ is_continuation_line(doc[i])
         THEN KeysLoop(doc, i + 1, out, mods_csv, workshop_csv, given, map_csv,
                       skipping, wrote)
         ELSE IF IsKey(doc[i], "mods")
         THEN KeysLoop(doc, i + 1,
                       Append(out, KeyLine("mods", "Mods=", mods_csv)),
                       mods_csv, workshop_csv, given, map_csv, TRUE,
                       wrote \cup {"mods"})
         ELSE IF IsKey(doc[i], "workshopitems")
         THEN KeysLoop(doc, i + 1,
                       Append(out, KeyLine("workshopitems", "WorkshopItems=",
                                           workshop_csv)),
                       mods_csv, workshop_csv, given, map_csv, TRUE,
                       wrote \cup {"workshopitems"})
         ELSE IF given /\ IsKey(doc[i], "map")
         THEN KeysLoop(doc, i + 1,
                       Append(out, KeyLine("map", "Map=", map_csv)),
                       mods_csv, workshop_csv, given, map_csv, TRUE,
                       wrote \cup {"map"})
         ELSE KeysLoop(doc, i + 1, Append(out, doc[i]), mods_csv, workshop_csv,
                       given, map_csv, FALSE, wrote)

rewrite_ini_keys(doc, mods_csv, workshop_csv, given, map_csv) ==
    LET r == KeysLoop(doc, 1, <<>>, mods_csv, workshop_csv, given, map_csv,
                      FALSE, {})
        o1 == IF "mods" \in r.wrote THEN r.out
              ELSE AppendLine(r.out, KeyLine("mods", "Mods=", mods_csv))
        o2 == IF "workshopitems" \in r.wrote THEN o1
              ELSE AppendLine(o1, KeyLine("workshopitems", "WorkshopItems=",
                                          workshop_csv))
    IN  IF given /\ "map" \notin r.wrote
        THEN AppendLine(o2, KeyLine("map", "Map=", map_csv))
        ELSE o2

\* rewrite_ini_map_key, the loop over the lines
RECURSIVE MapKeyLoop(_, _, _, _, _, _)
MapKeyLoop(doc, i, out, map_csv, skipping, wrote_map) ==
    IF i > Len(doc) THEN [out |-> out, wrote |-> wrote_map]
    ELSE IF skipping /\ is_continuation_line(doc[i])
         THEN MapKeyLoop(doc, i + 1, out, map_csv, skipping, wrote_map)
         ELSE IF IsKey(doc[i], "map")
         THEN MapKeyLoop(doc, i + 1, Append(out, KeyLine("map", "Map=", map_csv)),
                         map_csv, TRUE, TRUE)
         ELSE MapKeyLoop(doc, i + 1, Append(out, doc[i]), map_csv, FALSE,
                         wrote_map)

rewrite_ini_map_key(doc, map_csv) ==
    LET r == MapKeyLoop(doc, 1, <<>>, map_csv, FALSE, FALSE)
    IN  IF r.wrote THEN r.out
        ELSE AppendLine(r.out, KeyLine("map", "Map=", map_csv))

(***************************************************************************)
(* process_mods main, lines 713-818, one action per step.  The call of     *)
(* ensure_topological_order (line 773) is the run of its actions from      *)
(* pc = "build" to pc = "returned" or to the exit of _fatal.               *)
(***************************************************************************)
topoWork == <<prereqs, in_degree, dependents, heap, result, reorder_notes>>

vmVars == <<vm_tiledef_conflicts, vm_map_conflicts, scan_pc>>

FileWrite(path, content) == [path |-> path, content |-> content]

\* lines 713-717: both input files must exist
MainValidateInputs ==
    /\ pc = "validate"
    /\ IF ~mods_txt_exists
       THEN Fatal([kind |-> "mods_txt_not_found"])
       ELSE IF ~ini_exists
       THEN Fatal([kind |-> "ini_not_found"])
       ELSE pc' = "parse" /\ UNCHANGED <<exit_status, error>>
    /\ UNCHANGED <<mod_ids, requires_map, topoWork, scanVars, mainVars>>
    /\ UNCHANGED toolVars

\* lines 720-727: parse mods.txt
MainParse ==
    /\ pc = "parse"
    /\ LET p == parse_mods_txt(mods_txt)
       IN  IF p.workshop_ids = <<>>
           THEN /\ Fatal([kind |-> "no_workshop_ids"])
                /\ UNCHANGED <<workshop_ids, mod_ids>>
           ELSE IF p.mod_ids = <<>>
           THEN /\ Fatal([kind |-> "no_mod_ids"])
                /\ UNCHANGED <<workshop_ids, mod_ids>>
           ELSE /\ workshop_ids' = p.workshop_ids
                /\ mod_ids' = p.mod_ids
                /\ pc' = "collect"
                /\ UNCHANGED <<exit_status, error>>
    /\ UNCHANGED <<requires_map, topoWork, workshop_root, tiledef_conflicts,
                   map_coord_conflicts, vmVars, mainVars>>
    /\ UNCHANGED toolVars

\* lines 730-734: collect mod.info
MainCollect ==
    /\ pc = "collect"
    /\ LET c == collect_mod_info(workshop_root, workshop_ids)
       IN  /\ requires_map' = c.requires_map
           /\ workshop_to_mods' = c.workshop_to_mods
    /\ pc' = "conflicts"
    /\ UNCHANGED <<mod_ids, topoWork, exit_status, error, scanVars,
                   mods_txt_exists, ini_exists, mods_txt, ini, public_name,
                   all_maps, stdout, writes>>
    /\ UNCHANGED toolVars

\* The conflict checks with a tiledef conflict treated as fatal.
MainConflictChecksTiledefFatal ==
    /\ pc = "conflicts"
    /\ LET t == check_tiledef_conflicts(workshop_root, workshop_ids)
           c == check_map_coord_conflicts(workshop_root, workshop_ids)
       IN  /\ tiledef_conflicts' = t
           /\ map_coord_conflicts' = c
           /\ stdout' =
                 IF t # EmptyDict
                 THEN Append(stdout,
                             "WARNING: tiledef fileNumber conflict(s) detected")
                 ELSE stdout
           /\ IF t # EmptyDict
              THEN Fatal([kind |-> "tiledef_conflict"])
              ELSE pc' = "maps" /\ UNCHANGED <<exit_status, error>>
    /\ UNCHANGED <<mod_ids, requires_map, topoWork, workshop_root,
                   workshop_ids, vmVars, mods_txt_exists, ini_exists,
                   mods_txt, ini, public_name, workshop_to_mods, all_maps,
                   writes>>
    /\ UNCHANGED toolVars

\* lines 737-761: the conflict checks; every branch prints and goes on
MainConflictChecks ==
    /\ pc = "conflicts"
    /\ LET t == check_tiledef_conflicts(workshop_root, workshop_ids)
           c == check_map_coord_conflicts(workshop_root, workshop_ids)
       IN  /\ tiledef_conflicts' = t
           /\ map_coord_conflicts' = c
           /\ stdout' =
                 IF t # EmptyDict \/ c # EmptyDict
                 THEN stdout
                      \o (IF t # EmptyDict
                          THEN <<"WARNING: tiledef fileNumber conflict(s) detected">>
                          ELSE <<>>)
                      \o (IF c # EmptyDict
                          THEN <<"WARNING: map chunk coordinate conflict(s) detected">>
                          ELSE <<>>)
                      \o <<"WARNING: Continuing despite map conflicts">>
                 ELSE Append(stdout, "Map conflict checks:  OK")
    /\ pc' = "maps"
    /\ UNCHANGED <<mod_ids, requires_map, topoWork, exit_status, error,
                   workshop_root, workshop_ids, vmVars, mods_txt_exists,
                   ini_exists, mods_txt, ini, public_name, workshop_to_mods,
                   all_maps, writes>>
    /\ UNCHANGED toolVars

\* The Map= step with the INI keys written before the order is resolved.
MainCollectMapsThenUpdateIni ==
    /\ pc = "maps"
    /\ LET workshop_maps ==
              collect_workshop_maps(workshop_root, workshop_ids, ToSet(mod_ids))
           vanilla_maps ==
              Select(VANILLA_MAPS, 1, ToSet(VANILLA_MAPS) \ ToSet(workshop_maps))
       IN  all_maps' = workshop_maps \o vanilla_maps
    /\ ini' = update_ini(ini, mod_ids, workshop_ids)
    /\ writes' = Append(writes, FileWrite("ini", ini'))
    /\ pc' = "build"
    /\ UNCHANGED <<mod_ids, requires_map, topoWork, exit_status, error,
                   scanVars, mods_txt_exists, ini_exists, mods_txt,
                   public_name, workshop_to_mods, stdout>>
    /\ UNCHANGED toolVars

\* lines 764-770: the Map= entries; then the call of line 773
MainCollectMaps ==
    /\ pc = "maps"
    /\ LET workshop_maps ==
              collect_workshop_maps(workshop_root, workshop_ids, ToSet(mod_ids))
           vanilla_maps ==
              Select(VANILLA_MAPS, 1, ToSet(VANILLA_MAPS) \ ToSet(workshop_maps))
       IN  all_maps' = workshop_maps \o vanilla_maps
    /\ pc' = "build"
    /\ UNCHANGED <<mod_ids, requires_map, topoWork, exit_status, error,
                   scanVars, mods_txt_exists, ini_exists, mods_txt, ini,
                   public_name, workshop_to_mods, stdout, writes>>
    /\ UNCHANGED toolVars

\* lines 773-799: bind the returned order, report it, rewrite mods.txt and
\* read it again when it was rewritten
MainRewriteModsTxt ==
    /\ pc = "returned"
    /\ LET r == rewrite_mods_txt(mods_txt, workshop_ids, result,
                                 workshop_to_mods)
           p == parse_mods_txt(r.lines)
       IN  /\ mods_txt' = r.lines
           /\ writes' = IF r.changed
                        THEN Append(writes, FileWrite("mods.txt", r.lines))
                        ELSE writes
           /\ workshop_ids' = IF r.changed THEN p.workshop_ids ELSE workshop_ids
           /\ mod_ids' = IF r.changed THEN p.mod_ids ELSE result
           /\ stdout' = stdout
                 \o (IF reorder_notes # <<>>
                     THEN <<"WARNING: mods.txt order violated">>
                     ELSE <<"Topological order: OK (stable)">>)
                 \o (IF r.warnings # <<>>
                     THEN <<"WARNING: workshop block(s) have no Mod IDs">>
                     ELSE <<>>)
                 \o (IF r.changed THEN <<"Rewrote mods.txt">> ELSE <<>>)
    /\ pc' = "write_ini"
    /\ UNCHANGED <<requires_map, topoWork, exit_status, error, workshop_root,
                   tiledef_conflicts, map_coord_conflicts, vmVars,
                   mods_txt_exists, ini_exists, ini, public_name,
                   workshop_to_mods, all_maps>>
    /\ UNCHANGED toolVars

\* lines 803-809: Mods= and WorkshopItems=
MainUpdateIni ==
    /\ pc = "write_ini"
    /\ ini' = update_ini(ini, mod_ids, workshop_ids)
    /\ writes' = Append(writes, FileWrite("ini", ini'))
    /\ pc' = "write_map"
    /\ UNCHANGED <<mod_ids, requires_map, topoWork, exit_status, error,
                   scanVars, mods_txt_exists, ini_exists, mods_txt,
                   public_name, workshop_to_mods, all_maps, stdout>>
    /\ UNCHANGED toolVars

\* lines 811-813: Map=
MainUpdateMapLine ==
    /\ pc = "write_map"
    /\ ini' = update_map_line(ini, all_maps)
    /\ writes' = Append(writes, FileWrite("ini", ini'))
    /\ pc' = "public_name"
    /\ UNCHANGED <<mod_ids, requires_map, topoWork, exit_status, error,
                   scanVars, mods_txt_exists, ini_exists, mods_txt,
                   public_name, workshop_to_mods, all_maps, stdout>>
    /\ UNCHANGED toolVars

\* lines 816-818: PublicName= when the option is given; the process ends
MainPublicName ==
    /\ pc = "public_name"
    /\ IF public_name # NoPublicName
       THEN /\ ini' = update_public_name(ini, public_name)
            /\ writes' = Append(writes, FileWrite("ini", ini'))
       ELSE UNCHANGED <<ini, writes>>
    /\ pc' = "done"
    /\ exit_status' = 0
    /\ UNCHANGED <<mod_ids, requires_map, topoWork, error, scanVars,
                   mods_txt_exists, ini_exists, mods_txt, public_name,
                   workshop_to_mods, all_maps, stdout>>
    /\ UNCHANGED toolVars

(***************************************************************************)
(* The conflict checks applied to a workshop cache: process_mods main,     *)
(* lines 737-738, then validate_maps main, lines 303-315.                  *)
(***************************************************************************)
ScanProcessMods ==
    /\ scan_pc = "process_mods"
    /\ tiledef_conflicts' = check_tiledef_conflicts(workshop_root, workshop_ids)
    /\ map_coord_conflicts' = check_map_coord_conflicts(workshop_root, workshop_ids)
    /\ scan_pc' = "validate_maps"
    /\ UNCHANGED <<workshop_root, workshop_ids, vm_tiledef_conflicts,
                   vm_map_conflicts>>
    /\ UNCHANGED topoVars
    /\ UNCHANGED mainVars
    /\ UNCHANGED toolVars

ScanValidateMaps ==
    /\ scan_pc = "validate_maps"
    /\ vm_tiledef_conflicts' =
          vm_check_tiledef_conflicts(workshop_root, workshop_ids)
    /\ vm_map_conflicts' = vm_check_map_conflicts(workshop_root, workshop_ids)
    /\ scan_pc' = "done"
    /\ UNCHANGED <<workshop_root, workshop_ids, tiledef_conflicts,
                   map_coord_conflicts>>
    /\ UNCHANGED topoVars
    /\ UNCHANGED mainVars
    /\ UNCHANGED toolVars

(***************************************************************************)
(* Inputs of the conflict checks.  Workshop items are named by their       *)
(* position in mods.txt: workshop_ids is <<1, ..., k>> (parse_mods_txt     *)
(* and parse_workshop_ids drop repeated ids), an item above k is in the    *)
(* cache without being listed.  A listed item may be absent from the cache.*)
(* A cache either holds tiledef claims or coordinate claims: the two       *)
(* checks read disjoint parts of it.                                       *)
(***************************************************************************)
Wids == 1..NumItems

FileNumbers == {1, 2}

Coords == {<<5, 7>>, <<5, 8>>}

ClaimLens == {0, 1, 2}

ClaimLists(V) == UNION {[1..n -> V] : n \in ClaimLens}

\* an item with tiledef claims in one mod.info, or spread over two (the
\* 42/mod.info and common/mod.info variants) of which the first claims 1
TiledefItems(name) ==
    {AbsentItem}
    \cup {ItemDir(<<ModInfo(name, t)>>, <<>>) : t \in ClaimLists(FileNumbers)}
    \cup {ItemDir(<<ModInfo(name, <<1>>), ModInfo(NoName, <<b>>)>>, <<>>) :
             b \in FileNumbers}

CoordItems(name) ==
    {AbsentItem}
    \cup {ItemDir(IF name = NoName THEN <<>> ELSE <<ModInfo(name, <<>>)>>, l) :
             l \in ClaimLists(Coords)}

\* which items carry a name= line: the first only, or all (same name)
Namings == {[w \in Wids |-> IF w = 1 THEN "Map" ELSE NoName],
            [w \in Wids |-> "Map"]}

ItemsOf(family, name) ==
    IF family = "tiledef" THEN TiledefItems(name) ELSE CoordItems(name)

\* the caches whose item w is drawn from the family's items named nm[w]
CachesOf(family, nm) ==
    {f \in [Wids -> UNION {ItemsOf(family, nm[w]) : w \in Wids}] :
        \A w \in Wids : f[w] \in ItemsOf(family, nm[w])}

Caches ==
    UNION {CachesOf("tiledef", nm) \cup CachesOf("coord", nm) : nm \in Namings}

StepIdle ==
    /\ registry = <<>>
    /\ step_pc = "idle"
    /\ step_exit = 0
    /\ sync_failures = {}
    /\ content_root = "unset"
    /\ on_disk = {}
    /\ to_install = <<>>
    /\ next_wid = 1
    /\ installed = <<>>
    /\ failed = <<>>
    /\ attempts = <<>>
    /\ map_dirs = <<>>
    /\ map_sources = <<>>
    /\ claims = <<>>
    /\ prev_exit = 0
    /\ prev_failure = "none"

ToolIdle ==
    /\ ini_tool = "none"
    /\ ini_runs = 0
    /\ map_csv_given = TRUE
    /\ original = <<>>
    /\ output_lines = <<>>
    /\ write_pc = "idle"
    /\ rewrite_runs = 0
    /\ blocks_read = <<>>
    /\ prev_mods_txt = <<>>
    /\ prev_ini = <<>>
    /\ prev_writes = <<>>
    /\ cache_changed = FALSE
    /\ StepIdle

MainIdle ==
    /\ mods_txt_exists = FALSE
    /\ ini_exists = FALSE
    /\ mods_txt = <<>>
    /\ ini = <<>>
    /\ public_name = NoPublicName
    /\ workshop_to_mods = EmptyDict
    /\ all_maps = <<>>
    /\ stdout = <<>>
    /\ writes = <<>>

ScanIdle ==
    /\ workshop_root = <<>>
    /\ workshop_ids = <<>>
    /\ tiledef_conflicts = EmptyDict
    /\ map_coord_conflicts = EmptyDict
    /\ vm_tiledef_conflicts = EmptyDict
    /\ vm_map_conflicts = EmptyDict
    /\ scan_pc = "idle"

TopoIdle ==
    /\ mod_ids = <<>>
    /\ requires_map = <<>>
    /\ pc = "idle"
    /\ prereqs = <<>>
    /\ in_degree = <<>>
    /\ dependents = <<>>
    /\ heap = {}
    /\ result = <<>>
    /\ reorder_notes = <<>>
    /\ exit_status = 0
    /\ error = NoError

ScanInit ==
    /\ workshop_root \in Caches
    /\ \E k \in (NumItems - 1)..NumItems : workshop_ids = [i \in 1..k |-> i]
    /\ tiledef_conflicts = EmptyDict
    /\ map_coord_conflicts = EmptyDict
    /\ vm_tiledef_conflicts = EmptyDict
    /\ vm_map_conflicts = EmptyDict
    /\ scan_pc = "process_mods"
    /\ TopoIdle
    /\ MainIdle
    /\ ToolIdle

ScanNext == ScanProcessMods \/ ScanValidateMaps

SpecScan == ScanInit /\ [][ScanNext]_vars

(***************************************************************************)
(* Inputs of main: two workshop items 1 and 2, the mod w shipped by item   *)
(* w, and the sub-mod 3 shipped inside either item.                        *)
(***************************************************************************)
MainItems == {1, 2}

SubMod == 3

\* require= of the mod of item w: nothing, the mod of the other item, the
\* sub-mod
MainRequires(w) == {<<>>, <<3 - w>>, <<SubMod>>}

\* what the item claims: nothing, tiledef number 1, or map cell (5, 7) with
\* a map folder
MainClaims == {"none", "tiledef", "map"}

MainItem(w, req, claim, sub) ==
    ItemDir(<<ModInfoFile(2, w, req, "Map",
                          IF claim = "tiledef" THEN <<1>> ELSE <<>>,
                          IF claim = "map" THEN {w} ELSE {})>>
            \o (IF sub
                THEN <<ModInfoFile(1, SubMod, <<>>, NoName, <<>>, {})>>
                ELSE <<>>),
            IF claim = "map" THEN <<<<5, 7>>>> ELSE <<>>)

MainItemsOf(w) ==
    {AbsentItem}
    \cup {MainItem(w, req, claim, sub) :
             req \in MainRequires(w), claim \in MainClaims, sub \in BOOLEAN}

MainCaches == [MainItems -> MainItemsOf(1) \cup MainItemsOf(2)]

\* mods.txt: the block format, the legacy format, the sub-mod listed, a
\* repeated block, mods before any block, no mods, no blocks
MainModsTxts ==
    {<<WorkshopLine(1), ModLine(1), EndLine, BlankLine,
       WorkshopLine(2), ModLine(2), EndLine>>,
     <<CommentLine, WorkshopLine(1), ModLine(1), BlankLine,
       WorkshopLine(2), ModLine(2), ModLine(SubMod), OtherLine>>,
     <<WorkshopLine(2), ModLine(SubMod), ModLine(2), EndLine,
       WorkshopLine(1), ModLine(1), ModLine(1), EndLine>>,
     <<WorkshopLine(1), ModLine(1), EndLine,
       WorkshopLine(2), EndLine, ModLine(2),
       WorkshopLine(1), ModLine(SubMod), EndLine>>,
     <<WorkshopLine(1), EndLine, WorkshopLine(2), EndLine>>,
     <<CommentLine, ModLine(1), BlankLine>>}

\* the INI file: keys present with a continuation line, keys absent and no
\* final newline, keys in another letter case and repeated
MainInis ==
    {<<KeyLine("other", "Public=", <<1>>),
       KeyLine("mods", "Mods=", <<9>>),
       IniLine("cont", "", "", <<8>>, TRUE),
       KeyLine("workshopitems", "WorkshopItems=", <<9>>),
       KeyLine("map", "Map=", <<101>>),
       KeyLine("publicname", "PublicName=", <<1>>)>>,
     <<IniLine("comment", "", "", <<>>, TRUE),
       IniLine("key", "other", "Public=", <<1>>, FALSE)>>,
     <<KeyLine("mods", "mods =", <<9>>),
       IniLine("blank", "", "", <<>>, TRUE),
       KeyLine("mods", "MODS=", <<8>>),
       IniLine("cont", "", "", <<8>>, TRUE)>>}

MainInit ==
    /\ mods_txt_exists \in BOOLEAN
    /\ ini_exists \in BOOLEAN
    /\ mods_txt \in MainModsTxts
    /\ ini \in MainInis
    /\ (~mods_txt_exists) => mods_txt = <<CommentLine, ModLine(1), BlankLine>>
    /\ (~ini_exists) => ini = <<IniLine("comment", "", "", <<>>, TRUE),
                                IniLine("key", "other", "Public=", <<1>>, FALSE)>>
    /\ public_name \in {NoPublicName, 7}
    /\ workshop_root \in MainCaches
    /\ \A w \in MainItems : workshop_root[w] \in MainItemsOf(w)
    /\ workshop_ids = <<>>
    /\ tiledef_conflicts = EmptyDict
    /\ map_coord_conflicts = EmptyDict
    /\ vm_tiledef_conflicts = EmptyDict
    /\ vm_map_conflicts = EmptyDict
    /\ scan_pc = "idle"
    /\ workshop_to_mods = EmptyDict
    /\ all_maps = <<>>
    /\ stdout = <<>>
    /\ writes = <<>>
    /\ mod_ids = <<>>
    /\ requires_map = <<>>
    /\ pc = "validate"
    /\ prereqs = <<>>
    /\ in_degree = <<>>
    /\ dependents = <<>>
    /\ heap = {}
    /\ result = <<>>
    /\ reorder_notes = <<>>
    /\ exit_status = 0
    /\ error = NoError
    /\ ToolIdle

MainNext ==
    \/ MainValidateInputs
    \/ MainParse
    \/ MainCollect
    \/ MainConflictChecks
    \/ MainCollectMaps
    \/ BuildPrereqs
    \/ FastCheck
    \/ KahnInit
    \/ KahnPop
    \/ KahnFinish
    \/ MainRewriteModsTxt
    \/ MainUpdateIni
    \/ MainUpdateMapLine
    \/ MainPublicName

SpecMain == MainInit /\ [][MainNext]_vars

(***************************************************************************)
(* The INI rewriters applied to a document, and applied again to their own *)
(* result with the same values.                                            *)
(***************************************************************************)
\* the values written
NewMods == <<1, 2>>

NewWorkshop == <<1>>

NewMap == <<101>>

\* the value of every key line of the input documents
OldValue == <<9>>

\* The lines of the input documents: the three target keys, spelled as the
\* rewriters write them or in another letter case with a space before '=',
\* another key, a continuation line (text that begins with no identifier,
\* such as a wrapped value, an indented line or a line of spaces), and an
\* empty line.
IniAlphabet(lower) ==
    {KeyLine("mods", IF lower THEN "mods =" ELSE "Mods=", OldValue),
     KeyLine("workshopitems",
             IF lower THEN "WORKSHOPITEMS =" ELSE "WorkshopItems=", OldValue),
     KeyLine("map", IF lower THEN "map =" ELSE "Map=", OldValue),
     KeyLine("other", "Public=", OldValue),
     IniLine("cont", "", "", OldValue, TRUE),
     IniLine("blank", "", "", <<>>, TRUE)}

\* the document d with its last line not ended by a newline
Unterminated(d) == [d EXCEPT ![Len(d)] = [@ EXCEPT !.nl = FALSE]]

IniDocsOf(lower) ==
    LET full == UNION {[1..n -> IniAlphabet(lower)] : n \in 0..MaxIniLen}
    IN  full \cup {Unterminated(d) :
                     d \in {x \in full : x # <<>> /\ x[Len(x)].kind # "blank"}}

IniDocs == IniDocsOf(FALSE) \cup IniDocsOf(TRUE)

IniRunGuard(tool) ==
    /\ ini_runs < MaxIniRuns
    /\ ini_runs > 0 => ini_tool = tool

IniFrame ==
    /\ UNCHANGED <<mods_txt_exists, ini_exists, mods_txt, public_name,
                   workshop_to_mods, all_maps, stdout, output_lines,
                   write_pc, rewrite_runs, blocks_read, prev_mods_txt,
                   prev_ini, prev_writes, cache_changed, stepVars>>
    /\ UNCHANGED topoVars
    /\ UNCHANGED scanVars

\* process_mods.update_ini, lines 555-618
IniUpdateIni ==
    /\ IniRunGuard("update_ini")
    /\ original' = ini
    /\ ini' = update_ini(ini, NewMods, NewWorkshop)
    /\ writes' = Append(writes, FileWrite("ini", ini'))
    /\ ini_tool' = "update_ini"
    /\ ini_runs' = ini_runs + 1
    /\ UNCHANGED map_csv_given
    /\ IniFrame

\* process_mods.update_map_line, lines 626-661
IniUpdateMapLine ==
    /\ IniRunGuard("update_map_line")
    /\ original' = ini
    /\ ini' = update_map_line(ini, NewMap)
    /\ writes' = Append(writes, FileWrite("ini", ini'))
    /\ ini_tool' = "update_map_line"
    /\ ini_runs' = ini_runs + 1
    /\ UNCHANGED map_csv_given
    /\ IniFrame

\* update_server_ini.rewrite_ini_keys, lines 180-239; map_csv is None when
\* the caller passed --no-map
IniRewriteIniKeys ==
    /\ IniRunGuard("rewrite_ini_keys")
    /\ \E given \in BOOLEAN :
          /\ ini_runs > 0 => given = map_csv_given
          /\ map_csv_given' = given
          /\ ini' = rewrite_ini_keys(ini, NewMods, NewWorkshop, given, NewMap)
    /\ original' = ini
    /\ writes' = Append(writes, FileWrite("ini", ini'))
    /\ ini_tool' = "rewrite_ini_keys"
    /\ ini_runs' = ini_runs + 1
    /\ IniFrame

\* update_server_ini_map.rewrite_ini_map_key, lines 148-176
IniRewriteIniMapKey ==
    /\ IniRunGuard("rewrite_ini_map_key")
    /\ original' = ini
    /\ ini' = rewrite_ini_map_key(ini, NewMap)
    /\ writes' = Append(writes, FileWrite("ini", ini'))
    /\ ini_tool' = "rewrite_ini_map_key"
    /\ ini_runs' = ini_runs + 1
    /\ UNCHANGED map_csv_given
    /\ IniFrame

IniInit ==
    /\ ini \in IniDocs
    /\ ini_exists = TRUE
    /\ mods_txt_exists = FALSE
    /\ mods_txt = <<>>
    /\ public_name = NoPublicName
    /\ workshop_to_mods = EmptyDict
    /\ all_maps = <<>>
    /\ stdout = <<>>
    /\ writes = <<>>
    /\ ToolIdle
    /\ TopoIdle
    /\ ScanIdle

IniNext ==
    \/ IniUpdateIni
    \/ IniUpdateMapLine
    \/ IniRewriteIniKeys
    \/ IniRewriteIniMapKey

SpecIni == IniInit /\ [][IniNext]_vars

(***************************************************************************)
(* The write step of the INI rewriters.                                    *)
(*                                                                         *)
(* Every rewriter ends with ini_path.write_text("".join(output_lines)):    *)
(* the file at the INI path itself is opened for writing, which truncates  *)
(* it, the text is written into it, and it is closed.  No temporary file   *)
(* and no rename are involved.  Here ini is what a reader of the INI path  *)
(* sees, output_lines the document the rewriter computed, and write_pc the *)
(* position of the process inside the run: idle, open (about to open the   *)
(* file), writing, closed, or crashed (killed before the close).  The text *)
(* reaches the file line by line.                                          *)
(***************************************************************************)
WriteDocs == {d \in IniDocsOf(FALSE) : Len(d) <= MaxWriteLen}

WriteFrame ==
    /\ UNCHANGED <<mods_txt_exists, ini_exists, mods_txt, public_name,
                   workshop_to_mods, all_maps, stdout, rewrite_runs,
                   blocks_read, prev_mods_txt, prev_ini, prev_writes,
                   cache_changed, stepVars>>
    /\ UNCHANGED topoVars
    /\ UNCHANGED scanVars

\* read_text and the loop of a rewriter: the document is read and the new
\* one computed; a run starts in a fresh process, also after a crash
WriteBegin(tool, out) ==
    /\ write_pc \in {"idle", "closed", "crashed"}
    /\ ini_runs < MaxIniRuns
    /\ original' = ini
    /\ output_lines' = out
    /\ write_pc' = "open"
    /\ ini_tool' = tool
    /\ ini_runs' = ini_runs + 1
    /\ UNCHANGED <<ini, writes>>
    /\ WriteFrame

\* process_mods.update_ini up to its write_text
WriteUpdateIni ==
    /\ WriteBegin("update_ini", update_ini(ini, NewMods, NewWorkshop))
    /\ UNCHANGED map_csv_given

\* process_mods.update_map_line up to its write_text
WriteUpdateMapLine ==
    /\ WriteBegin("update_map_line", update_map_line(ini, NewMap))
    /\ UNCHANGED map_csv_given

\* update_server_ini.rewrite_ini_keys up to its write_text
WriteRewriteIniKeys ==
    \E given \in BOOLEAN :
        /\ WriteBegin("rewrite_ini_keys",
                      rewrite_ini_keys(ini, NewMods, NewWorkshop, given,
                                       NewMap))
        /\ map_csv_given' = given

\* update_server_ini_map.rewrite_ini_map_key up to its write_text
WriteRewriteIniMapKey ==
    /\ WriteBegin("rewrite_ini_map_key", rewrite_ini_map_key(ini, NewMap))
    /\ UNCHANGED map_csv_given

\* write_text opens the INI path with mode "w": the file is now empty
WriteOpen ==
    /\ write_pc = "open"
    /\ ini' = <<>>
    /\ write_pc' = "writing"
    /\ UNCHANGED <<ini_tool, ini_runs, map_csv_given, original, output_lines,
                   writes>>
    /\ WriteFrame

\* the next line of the text reaches the file
WriteData ==
    /\ write_pc = "writing"
    /\ Len(ini) < Len(output_lines)
    /\ ini' = SubSeq(output_lines, 1, Len(ini) + 1)
    /\ UNCHANGED <<ini_tool, ini_runs, map_csv_given, original, output_lines,
                   write_pc, writes>>
    /\ WriteFrame

\* all of the text is in the file: write_text closes it and returns
WriteClose ==
    /\ write_pc = "writing"
    /\ Len(ini) = Len(output_lines)
    /\ write_pc' = "closed"
    /\ writes' = Append(writes, FileWrite("ini", ini))
    /\ UNCHANGED <<ini, ini_tool, ini_runs, map_csv_given, original,
                   output_lines>>
    /\ WriteFrame

\* the process is killed (container stop, power loss) before the close
WriteCrash ==
    /\ write_pc \in {"open", "writing"}
    /\ write_pc' = "crashed"
    /\ UNCHANGED <<ini, ini_tool, ini_runs, map_csv_given, original,
                   output_lines, writes>>
    /\ WriteFrame

WriteInit ==
    /\ ini \in WriteDocs
    /\ ini_exists = TRUE
    /\ mods_txt_exists = FALSE
    /\ mods_txt = <<>>
    /\ public_name = NoPublicName
    /\ workshop_to_mods = EmptyDict
    /\ all_maps = <<>>
    /\ stdout = <<>>
    /\ writes = <<>>
    /\ ToolIdle
    /\ TopoIdle
    /\ ScanIdle

WriteNext ==
    \/ WriteUpdateIni
    \/ WriteUpdateMapLine
    \/ WriteRewriteIniKeys
    \/ WriteRewriteIniMapKey
    \/ WriteOpen
    \/ WriteData
    \/ WriteClose
    \/ WriteCrash

SpecWrite == WriteInit /\ [][WriteNext]_vars

(***************************************************************************)
(* Consecutive runs of process_mods over one mods.txt.                     *)
(*                                                                         *)
(* A run parses mods.txt, reads the mod.info files of the listed items,    *)
(* sorts the listed mods and calls rewrite_mods_txt; the next run reads    *)
(* what this one left.  ensure_topological_order returns the listed mods   *)
(* in some order (or ends the run), so each order of the listed mods is    *)
(* offered to rewrite_mods_txt.  blocks_read is what the run parsed from    *)
(* mods.txt before it wrote.                                               *)
(***************************************************************************)
ModsTxtAlphabet ==
    {WorkshopLine(1), WorkshopLine(2), ModLine(1), ModLine(2),
     ModLine(SubMod), EndLine}

ModsTxts == UNION {[1..n -> ModsTxtAlphabet] : n \in 0..MaxModsLen}

\* a downloaded item with one mod.info per id, in path order
RewriteItem(ids) ==
    ItemDir([i \in 1..Len(ids) |->
                ModInfoFile(i, ids[i], <<>>, NoName, <<>>, {})], <<>>)

\* item 1: not downloaded, its mod, or its mod and a sub-mod beside it;
\* item 2: not downloaded, its mod, or its mod and a copy of mod 1
RewriteRoots ==
    {[w \in MainItems |-> IF w = 1 THEN a ELSE b] :
        a \in {AbsentItem, RewriteItem(<<1>>), RewriteItem(<<SubMod, 1>>)},
        b \in {AbsentItem, RewriteItem(<<2>>), RewriteItem(<<2, 1>>)}}

\* the orders of the list s of distinct mods
Orders(s) == {p \in [1..Len(s) -> ToSet(s)] : IsDistinct(p)}

RewriteFrame ==
    /\ UNCHANGED <<mods_txt_exists, ini_exists, ini, public_name, all_maps,
                   stdout>>
    /\ UNCHANGED <<pc, prereqs, in_degree, dependents, heap, reorder_notes>>
    /\ UNCHANGED <<workshop_root, tiledef_conflicts, map_coord_conflicts,
                   vm_tiledef_conflicts, vm_map_conflicts, scan_pc>>
    /\ UNCHANGED <<ini_tool, ini_runs, map_csv_given, original, output_lines,
                   write_pc, prev_mods_txt, prev_ini, prev_writes,
                   cache_changed, stepVars>>

\* main, lines 720-799, when mods.txt lists an item and a mod
RewriteRun ==
    /\ rewrite_runs < MaxRewriteRuns
    /\ LET p == parse_mods_txt(mods_txt)
           c == collect_mod_info(workshop_root, p.workshop_ids)
       IN  /\ p.workshop_ids # <<>>
           /\ p.mod_ids # <<>>
           /\ \E mod_ids_sorted \in Orders(p.mod_ids) :
                 LET r == rewrite_mods_txt(mods_txt, p.workshop_ids,
                                           mod_ids_sorted, c.workshop_to_mods)
                     q == parse_mods_txt(r.lines)
                 IN  /\ blocks_read' = parse_mods_blocks(mods_txt)
                     /\ mods_txt' = r.lines
                     /\ result' = mod_ids_sorted
                     /\ writes' = IF r.changed
                                  THEN Append(writes,
                                              FileWrite("mods.txt", r.lines))
                                  ELSE writes
                     /\ workshop_ids' = IF r.changed THEN q.workshop_ids
                                        ELSE p.workshop_ids
                     /\ mod_ids' = IF r.changed THEN q.mod_ids
                                   ELSE mod_ids_sorted
           /\ requires_map' = c.requires_map
           /\ workshop_to_mods' = c.workshop_to_mods
    /\ rewrite_runs' = rewrite_runs + 1
    /\ exit_status' = 0
    /\ error' = NoError
    /\ RewriteFrame

\* main, lines 720-725: no 'Workshop ID:' line or no 'Mod ID:' line
RewriteFatal ==
    /\ rewrite_runs < MaxRewriteRuns
    /\ LET p == parse_mods_txt(mods_txt)
       IN  /\ p.workshop_ids = <<>> \/ p.mod_ids = <<>>
           /\ error' = [kind |-> IF p.workshop_ids = <<>>
                                 THEN "no_workshop_ids" ELSE "no_mod_ids"]
           /\ blocks_read' = parse_mods_blocks(mods_txt)
    /\ exit_status' = 1
    /\ rewrite_runs' = rewrite_runs + 1
    /\ UNCHANGED <<mods_txt, writes, workshop_ids, mod_ids, result,
                   requires_map, workshop_to_mods>>
    /\ RewriteFrame

RewriteInit ==
    /\ mods_txt \in ModsTxts
    /\ mods_txt_exists = TRUE
    /\ workshop_root \in RewriteRoots
    /\ ini_exists = TRUE
    /\ ini = <<>>
    /\ public_name = NoPublicName
    /\ workshop_to_mods = EmptyDict
    /\ all_maps = <<>>
    /\ stdout = <<>>
    /\ writes = <<>>
    /\ workshop_ids = <<>>
    /\ tiledef_conflicts = EmptyDict
    /\ map_coord_conflicts = EmptyDict
    /\ vm_tiledef_conflicts = EmptyDict
    /\ vm_map_conflicts = EmptyDict
    /\ scan_pc = "idle"
    /\ ToolIdle
    /\ TopoIdle

RewriteNext ==
    \/ RewriteRun
    \/ RewriteFatal

SpecRewrite == RewriteInit /\ [][RewriteNext]_vars

(***************************************************************************)
(* Consecutive runs of the whole of process_mods main.                     *)
(*                                                                         *)
(* Each run is a new process over the files the previous one left: the     *)
(* steps of a run are those of SpecMain, with the sort carried out as the  *)
(* code does.  When a run has ended the next one may start; before it      *)
(* starts a workshop item may have been pruned from the cache (cleanup.py  *)
(* removes item directories).  prev_mods_txt, prev_ini and prev_writes are *)
(* the two files and the write log as the previous run left them, and      *)
(* cache_changed says that an item was pruned since the first run.         *)
(***************************************************************************)
\* a downloaded item: one mod.info per id, in path order, with its require=
RunsItem(ids, reqs) ==
    ItemDir([i \in 1..Len(ids) |->
                ModInfoFile(i, ids[i], reqs[i], NoName, <<>>, {})], <<>>)

OrphanMod == 4

\* item 1: absent, mod 1, the sub-mod and mod 1, the same with mod 1
\* requiring mod 2; item 2: absent, mod 2, mod 2 requiring mod 1, mod 2
\* and a second copy of mod 1
RunsCaches ==
    {[w \in MainItems |-> IF w = 1 THEN a ELSE b] :
        a \in {AbsentItem,
               RunsItem(<<1>>, <<<<>>>>),
               RunsItem(<<SubMod, 1>>, <<<<>>, <<>>>>),
               RunsItem(<<SubMod, 1>>, <<<<>>, <<2>>>>)},
        b \in {AbsentItem,
               RunsItem(<<2>>, <<<<>>>>),
               RunsItem(<<2>>, <<<<1>>>>),
               RunsItem(<<2, 1>>, <<<<>>, <<>>>>)}}

\* mods.txt: one mod per block; the sub-mod listed in block 1; a mod that
\* no mod.info declares listed in block 2; the legacy format; item 2
\* first and the sub-mod listed before mod 1; the same with the mod that no
\* mod.info declares
RunsModsTxts ==
    {<<WorkshopLine(1), ModLine(1), EndLine, BlankLine,
       WorkshopLine(2), ModLine(2), EndLine>>,
     <<WorkshopLine(1), ModLine(1), ModLine(SubMod), EndLine, BlankLine,
       WorkshopLine(2), ModLine(2), EndLine>>,
     <<WorkshopLine(1), ModLine(1), EndLine, BlankLine,
       WorkshopLine(2), ModLine(2), ModLine(OrphanMod), EndLine>>,
     <<WorkshopLine(1), ModLine(1), WorkshopLine(2), ModLine(2)>>,
     <<WorkshopLine(2), ModLine(2), EndLine, BlankLine,
       WorkshopLine(1), ModLine(SubMod), ModLine(1), EndLine>>,
     <<WorkshopLine(2), ModLine(2), EndLine, BlankLine,
       WorkshopLine(1), ModLine(SubMod), ModLine(1), ModLine(OrphanMod),
       EndLine>>}

\* the INI file: the keys present, and the keys absent behind a last line
\* with and without its newline
RunsInis ==
    {<<KeyLine("other", "Public=", <<1>>),
       KeyLine("mods", "Mods=", <<9>>),
       KeyLine("workshopitems", "WorkshopItems=", <<9>>),
       KeyLine("map", "Map=", <<101>>)>>,
     <<KeyLine("other", "Public=", <<1>>)>>,
     <<IniLine("key", "other", "Public=", <<1>>, FALSE)>>}

\* the previous process has ended; a new one starts with nothing in memory
RunsRestart ==
    /\ pc \in {"done", "exit"}
    /\ rewrite_runs + 1 < MaxRewriteRuns
    /\ rewrite_runs' = rewrite_runs + 1
    /\ prev_mods_txt' = mods_txt
    /\ prev_ini' = ini
    /\ prev_writes' = writes
    /\ pc' = "validate"
    /\ mod_ids' = <<>>
    /\ requires_map' = <<>>
    /\ prereqs' = <<>>
    /\ in_degree' = <<>>
    /\ dependents' = <<>>
    /\ heap' = {}
    /\ result' = <<>>
    /\ reorder_notes' = <<>>
    /\ exit_status' = 0
    /\ error' = NoError
    /\ workshop_ids' = <<>>
    /\ tiledef_conflicts' = EmptyDict
    /\ map_coord_conflicts' = EmptyDict
    /\ workshop_to_mods' = EmptyDict
    /\ all_maps' = <<>>
    /\ stdout' = <<>>
    /\ writes' = <<>>
    /\ UNCHANGED <<workshop_root, vmVars, scan_pc, mods_txt_exists,
                   ini_exists, mods_txt, ini, public_name, cache_changed>>
    /\ UNCHANGED <<ini_tool, ini_runs, map_csv_given, original, output_lines,
                   write_pc, blocks_read, stepVars>>

\* cleanup.py between two runs: the directory of one item is removed
RunsPrune ==
    /\ pc \in {"done", "exit"}
    /\ rewrite_runs + 1 < MaxRewriteRuns
    /\ \E w \in MainItems :
          /\ workshop_root[w].is_dir
          /\ workshop_root' = [workshop_root EXCEPT ![w] = AbsentItem]
    /\ cache_changed' = TRUE
    /\ UNCHANGED topoVars
    /\ UNCHANGED <<workshop_ids, tiledef_conflicts, map_coord_conflicts,
                   vmVars, scan_pc>>
    /\ UNCHANGED mainVars
    /\ UNCHANGED <<ini_tool, ini_runs, map_csv_given, original, output_lines,
                   write_pc, rewrite_runs, blocks_read, prev_mods_txt,
                   prev_ini, prev_writes, stepVars>>

RunsInit ==
    /\ mods_txt_exists = TRUE
    /\ ini_exists = TRUE
    /\ mods_txt \in RunsModsTxts
    /\ ini \in RunsInis
    /\ public_name = NoPublicName
    /\ workshop_root \in RunsCaches
    /\ workshop_ids = <<>>
    /\ tiledef_conflicts = EmptyDict
    /\ map_coord_conflicts = EmptyDict
    /\ vm_tiledef_conflicts = EmptyDict
    /\ vm_map_conflicts = EmptyDict
    /\ scan_pc = "idle"
    /\ workshop_to_mods = EmptyDict
    /\ all_maps = <<>>
    /\ stdout = <<>>
    /\ writes = <<>>
    /\ mod_ids = <<>>
    /\ requires_map = <<>>
    /\ pc = "validate"
    /\ prereqs = <<>>
    /\ in_degree = <<>>
    /\ dependents = <<>>
    /\ heap = {}
    /\ result = <<>>
    /\ reorder_notes = <<>>
    /\ exit_status = 0
    /\ error = NoError
    /\ ToolIdle

RunsNext ==
    \/ MainNext
    \/ RunsRestart
    \/ RunsPrune

SpecRuns == RunsInit /\ [][RunsNext]_vars

(***************************************************************************)
(* process_mods invoked twice in a row, each time on inputs of its own:    *)
(* the exit status and the kind of error of the first invocation are kept  *)
(* beside those of the second.                                             *)
(***************************************************************************)
\* the first process has ended; the second starts on other inputs
CliRerun ==
    /\ pc \in {"done", "exit"}
    /\ rewrite_runs + 1 < MaxRewriteRuns
    /\ rewrite_runs' = rewrite_runs + 1
    /\ prev_exit' = exit_status
    /\ prev_failure' = error.kind
    /\ workshop_root' \in RunsCaches
    /\ mods_txt_exists' \in BOOLEAN
    /\ ini_exists' \in BOOLEAN
    /\ mods_txt' \in IF mods_txt_exists' THEN RunsModsTxts ELSE {<<>>}
    /\ ini' \in IF ini_exists' THEN RunsInis ELSE {<<>>}
    /\ pc' = "validate"
    /\ mod_ids' = <<>>
    /\ requires_map' = <<>>
    /\ prereqs' = <<>>
    /\ in_degree' = <<>>
    /\ dependents' = <<>>
    /\ heap' = {}
    /\ result' = <<>>
    /\ reorder_notes' = <<>>
    /\ exit_status' = 0
    /\ error' = NoError
    /\ workshop_ids' = <<>>
    /\ tiledef_conflicts' = EmptyDict
    /\ map_coord_conflicts' = EmptyDict
    /\ workshop_to_mods' = EmptyDict
    /\ all_maps' = <<>>
    /\ stdout' = <<>>
    /\ writes' = <<>>
    /\ UNCHANGED <<vmVars, public_name>>
    /\ UNCHANGED <<ini_tool, ini_runs, map_csv_given, original, output_lines,
                   write_pc, blocks_read, prev_mods_txt, prev_ini, prev_writes,
                   cache_changed>>
    /\ UNCHANGED <<registry, step_pc, step_exit, sync_failures, content_root,
                   on_disk, to_install, next_wid, installed, failed, attempts,
                   map_dirs, map_sources, claims>>

CliInit ==
    /\ workshop_root \in RunsCaches
    /\ workshop_ids = <<>>
    /\ tiledef_conflicts = EmptyDict
    /\ map_coord_conflicts = EmptyDict
    /\ vm_tiledef_conflicts = EmptyDict
    /\ vm_map_conflicts = EmptyDict
    /\ scan_pc = "idle"
    /\ mods_txt_exists \in BOOLEAN
    /\ ini_exists \in BOOLEAN
    /\ mods_txt \in IF mods_txt_exists THEN RunsModsTxts ELSE {<<>>}
    /\ ini \in IF ini_exists THEN RunsInis ELSE {<<>>}
    /\ public_name = NoPublicName
    /\ workshop_to_mods = EmptyDict
    /\ all_maps = <<>>
    /\ stdout = <<>>
    /\ writes = <<>>
    /\ mod_ids = <<>>
    /\ requires_map = <<>>
    /\ pc = "validate"
    /\ prereqs = <<>>
    /\ in_degree = <<>>
    /\ dependents = <<>>
    /\ heap = {}
    /\ result = <<>>
    /\ reorder_notes = <<>>
    /\ exit_status = 0
    /\ error = NoError
    /\ ToolIdle

CliNext ==
    \/ MainNext
    \/ CliRerun

SpecCli == CliInit /\ [][CliNext]_vars

(***************************************************************************)
(* The init steps that work from the registry mods.json.  The registry is  *)
(* the list under its "mods" key: one entry per workshop item with its     *)
(* workshopId, an optional "enabled" flag, and its "mods", each with an id *)
(* and an optional "enabled" flag.  A flag is "true", "false" or "absent". *)
(* A value of Mods= or WorkshopItems= is the list of its ';' separated     *)
(* entries, each the number bs of backslashes in front and the id behind.  *)
(***************************************************************************)
RegMod(id, enabled) == [id |-> id, enabled |-> enabled]

RegEntry(wid, enabled, mods) == [workshopId |-> wid, enabled |-> enabled, mods |-> mods]

\* bool(d.get("enabled", default))
FlagOr(flag, default) == IF flag = "absent" THEN default ELSE flag = "true"

\* the ids of the mods of one entry whose flag, with the given default, is set
RECURSIVE EnabledModsOf(_, _, _)
EnabledModsOf(mods, i, default) ==
    IF i > Len(mods) THEN <<>>
    ELSE IF FlagOr(mods[i].enabled, default)
         THEN <<mods[i].id>> \o EnabledModsOf(mods, i + 1, default)
         ELSE EnabledModsOf(mods, i + 1, default)

\* update_server_ini.extract_enabled_workshop_ids: the entries that have an
\* enabled mod, where a mod without flag is not enabled
RECURSIVE WorkshopIdsLoop(_, _, _)
WorkshopIdsLoop(plan, i, out) ==
    IF i > Len(plan) THEN out
    ELSE IF EnabledModsOf(plan[i].mods, 1, FALSE) # <<>>
         THEN WorkshopIdsLoop(plan, i + 1, Append(out, plan[i].workshopId))
         ELSE WorkshopIdsLoop(plan, i + 1, out)

extract_enabled_workshop_ids(plan) ==
    ExtendNew(<<>>, WorkshopIdsLoop(plan, 1, <<>>), 1)

\* update_server_ini.extract_ordered_mod_ids
RECURSIVE OrderedModIdsLoop(_, _, _)
OrderedModIdsLoop(plan, i, out) ==
    IF i > Len(plan) THEN out
    ELSE OrderedModIdsLoop(plan, i + 1,
             ExtendNew(out, EnabledModsOf(plan[i].mods, 1, FALSE), 1))

extract_ordered_mod_ids(plan) == OrderedModIdsLoop(plan, 1, <<>>)

\* ";".join(ids): every entry without a backslash
JoinCsv(ids) == [i \in 1..Len(ids) |-> [bs |-> 0, id |-> ids[i]]]

\* update_server_ini.mod_ids_to_pz_mods_csv: every entry behind one backslash
mod_ids_to_pz_mods_csv(ids) == [i \in 1..Len(ids) |-> [bs |-> 1, id |-> ids[i]]]

\* test_modinit_ini_sync.split_csv: one leading backslash is taken off
split_csv(value) ==
    [i \in 1..Len(value) |->
        IF value[i].bs > 0 THEN [value[i] EXCEPT !.bs = @ - 1] ELSE value[i]]

\* RE_KEYVAL of the test: the key of a line, "" when the line has none.  The
\* key is compared as written; white space around it does not count.
TestKey(line) ==
    IF line.spelling \in {"Mods=", " Mods="} THEN "Mods"
    ELSE IF line.spelling = "WorkshopItems=" THEN "WorkshopItems"
    ELSE ""

\* test_modinit_ini_sync.parse_ini_mods: the last line of each key wins
RECURSIVE ParseIniLoop(_, _, _)
ParseIniLoop(doc, i, acc) ==
    IF i > Len(doc) THEN acc
    ELSE IF TestKey(doc[i]) = "Mods"
         THEN ParseIniLoop(doc, i + 1, [acc EXCEPT !.mods = split_csv(doc[i].value)])
         ELSE IF TestKey(doc[i]) = "WorkshopItems"
         THEN ParseIniLoop(doc, i + 1,
                           [acc EXCEPT !.workshop_items = split_csv(doc[i].value)])
         ELSE ParseIniLoop(doc, i + 1, acc)

parse_ini_mods(doc) == ParseIniLoop(doc, 1, [mods |-> <<>>, workshop_items |-> <<>>])

\* test_modinit_ini_sync.registry_by_workshop_id for a list: a later entry
\* of the same workshopId replaces the earlier one
registry_by_workshop_id(reg) ==
    [w \in {reg[i].workshopId : i \in 1..Len(reg)} |->
        LET last == CHOOSE i \in 1..Len(reg) :
                       /\ reg[i].workshopId = w
                       /\ \A j \in (i + 1)..Len(reg) : reg[j].workshopId # w
        IN  [enabled |-> FlagOr(reg[last].enabled, TRUE),
             modIds |-> ExtendNew(<<>>, EnabledModsOf(reg[last].mods, 1, TRUE), 1)]]

\* test_modinit_ini_sync.registry_enabled_workshop_ids
registry_enabled_workshop_ids(reg) ==
    LET by_wid == registry_by_workshop_id(reg)
    IN  SortedList({w \in DOMAIN by_wid : by_wid[w].enabled})

\* test_modinit_ini_sync.registry_enabled_mod_ids for a list (enabled_set is
\* empty): the modIds of the enabled entries in the order of the workshop IDs
RECURSIVE EnabledModIdsLoop(_, _, _, _)
EnabledModIdsLoop(by_wid, wids, i, out) ==
    IF i > Len(wids) THEN out
    ELSE EnabledModIdsLoop(by_wid, wids, i + 1,
             ExtendNew(out, by_wid[wids[i]].modIds, 1))

registry_enabled_mod_ids(reg) ==
    EnabledModIdsLoop(registry_by_workshop_id(reg),
                      registry_enabled_workshop_ids(reg), 1, <<>>)

\* test_modinit_ini_sync.assert_subset: TRUE when it returns no message
assert_subset(universe, subset) == ToSet(subset) \subseteq ToSet(universe)

ToolCoreIdle ==
    /\ ini_tool = "none"
    /\ ini_runs = 0
    /\ map_csv_given = TRUE
    /\ original = <<>>
    /\ output_lines = <<>>
    /\ write_pc = "idle"
    /\ rewrite_runs = 0
    /\ blocks_read = <<>>
    /\ prev_mods_txt = <<>>
    /\ prev_ini = <<>>
    /\ prev_writes = <<>>
    /\ cache_changed = FALSE

\* the variables of the INI rewriters and of consecutive runs
toolCore == <<ini_tool, ini_runs, map_csv_given, original, output_lines,
              write_pc, rewrite_runs, blocks_read, prev_mods_txt, prev_ini,
              prev_writes, cache_changed>>

(***************************************************************************)
(* update_server_ini run on a registry and an INI, followed by the         *)
(* comparison of test_modinit_ini_sync.                                    *)
(***************************************************************************)
MaxEntries == 2     \* entries of the registry
MaxEntryMods == 1   \* mods of one registry entry

Flags == {"absent", "true", "false"}

RegModLists == UNION {[1..n -> {RegMod(m, f) : m \in {1, 2}, f \in Flags}] : n \in 0..MaxEntryMods}

RegEntries == {RegEntry(w, f, ms) : w \in {1, 2}, f \in Flags, ms \in RegModLists}

Registries == UNION {[1..n -> RegEntries] : n \in 0..MaxEntries}

\* the value of the key lines of the INI before the run
OldCsv == <<[bs |-> 1, id |-> 9]>>

\* INI documents: no key, both keys, an indented Mods= line behind another
\* key (a continuation line to the rewriter, a key line to the test), and a
\* last line without newline
SyncInis ==
    {<<KeyLine("other", "Public=", OldCsv)>>,
     <<KeyLine("mods", "Mods=", OldCsv),
       KeyLine("workshopitems", "WorkshopItems=", OldCsv)>>,
     <<KeyLine("mods", "mods =", OldCsv), KeyLine("other", "Public=", OldCsv),
       IniLine("cont", "", " Mods=", OldCsv, TRUE)>>,
     <<IniLine("key", "other", "Public=", OldCsv, FALSE)>>}

SyncFrame ==
    /\ UNCHANGED topoVars
    /\ UNCHANGED scanVars
    /\ UNCHANGED <<mods_txt_exists, ini_exists, mods_txt, public_name,
                   workshop_to_mods, all_maps, stdout>>
    /\ UNCHANGED toolCore
    /\ UNCHANGED <<registry, content_root, on_disk, to_install, next_wid,
                   installed, failed, attempts, map_dirs, map_sources, claims,
                   prev_exit, prev_failure>>

\* update_server_ini.main, lines 259-335: a missing INI, or a --require-*
\* flag whose list is empty, ends the run with exit status 2 before anything
\* is written.  The registry file exists and holds a "mods" list.
SyncUpdateServerIni ==
    /\ step_pc = "start"
    /\ \E require_workshop_ids, require_mod_ids, require_map_names, no_map \in BOOLEAN,
          map_names \in {<<>>, <<101>>} :
          LET workshop_ids_ == extract_enabled_workshop_ids(registry)
              mod_ids_ == extract_ordered_mod_ids(registry)
          IN  IF \/ ~ini_exists
                 \/ require_workshop_ids /\ workshop_ids_ = <<>>
                 \/ require_mod_ids /\ mod_ids_ = <<>>
                 \/ require_map_names /\ map_names = <<>>
              THEN /\ step_pc' = "exit"
                   /\ step_exit' = 2
                   /\ UNCHANGED <<ini, writes>>
              ELSE /\ ini' = rewrite_ini_keys(ini, mod_ids_to_pz_mods_csv(mod_ids_),
                                              JoinCsv(workshop_ids_), ~no_map,
                                              JoinCsv(map_names))
                   /\ writes' = Append(writes, FileWrite("ini", ini'))
                   /\ step_pc' = "updated"
                   /\ step_exit' = 0
    /\ UNCHANGED sync_failures
    /\ SyncFrame

\* test_modinit_ini_sync.main, lines 374-407, in its default mode
SyncTest ==
    /\ step_pc = "updated"
    /\ LET expected_mods == JoinCsv(registry_enabled_mod_ids(registry))
           expected_workshop == JoinCsv(registry_enabled_workshop_ids(registry))
           parsed == parse_ini_mods(ini)
       IN  /\ sync_failures' =
                 {k \in {"Mods"} : ~assert_subset(expected_mods, parsed.mods)}
                 \cup {k \in {"WorkshopItems"} :
                          ~assert_subset(expected_workshop, parsed.workshop_items)}
           /\ step_exit' = IF sync_failures' # {} THEN 1 ELSE 0
    /\ step_pc' = "tested"
    /\ UNCHANGED <<ini, writes>>
    /\ SyncFrame

SyncInit ==
    /\ TopoIdle
    /\ ScanIdle
    /\ mods_txt_exists = FALSE
    /\ ini_exists \in BOOLEAN
    /\ mods_txt = <<>>
    /\ ini \in IF ini_exists THEN SyncInis ELSE {<<>>}
    /\ public_name = NoPublicName
    /\ workshop_to_mods = EmptyDict
    /\ all_maps = <<>>
    /\ stdout = <<>>
    /\ writes = <<>>
    /\ ToolCoreIdle
    /\ registry \in Registries
    /\ step_pc = "start"
    /\ step_exit = 0
    /\ sync_failures = {}
    /\ content_root = "unset"
    /\ on_disk = {}
    /\ to_install = <<>>
    /\ next_wid = 1
    /\ installed = <<>>
    /\ failed = <<>>
    /\ attempts = <<>>
    /\ map_dirs = <<>>
    /\ map_sources = <<>>
    /\ claims = <<>>
    /\ prev_exit = 0
    /\ prev_failure = "none"

SyncNext == SyncUpdateServerIni \/ SyncTest

SpecSync == SyncInit /\ [][SyncNext]_vars

(***************************************************************************)
(* init/download.py main: the plan, then one pass of the loop per planned  *)
(* workshop ID, then the save of the two lists and the exit status.        *)
(* on_disk is the set of item directories of the workshop content          *)
(* directory; content_root is "content" when the registry names that       *)
(* directory as workshop.contentRoot and "unset" when it has no such key.  *)
(***************************************************************************)
\* download.enabled_workshop_ids_from_registry
enabled_workshop_ids_from_registry(reg) ==
    ExtendNew(<<>>, WorkshopIdsLoop(reg, 1, <<>>), 1)

\* download.is_downloaded behind the test of content_root_path, line 247
is_downloaded(wid) == content_root # "unset" /\ wid \in on_disk

\* the exit statuses steamcmd_download returns: that of steamcmd, 124 after
\* a timeout, 127 when the binary is not found
ReturnCodes == {0, 1, 124, 127}

DownloadFrame ==
    /\ UNCHANGED topoVars
    /\ UNCHANGED scanVars
    /\ UNCHANGED mainVars
    /\ UNCHANGED toolCore
    /\ UNCHANGED <<registry, sync_failures, content_root, map_dirs,
                   map_sources, claims, prev_exit, prev_failure>>

\* lines 200-241: the inputs, the plan, the empty plan and --dry-run
DownloadPlan ==
    /\ step_pc = "start"
    /\ \E steamappdir_set, dry_run \in BOOLEAN :
          IF ~steamappdir_set
          THEN /\ step_pc' = "exit"
               /\ step_exit' = 2
               /\ UNCHANGED to_install
          ELSE /\ to_install' = enabled_workshop_ids_from_registry(registry)
               /\ step_exit' = 0
               /\ step_pc' = IF to_install' = <<>> THEN "empty"
                             ELSE IF dry_run THEN "dry_run"
                             ELSE "loop"
    /\ UNCHANGED <<on_disk, next_wid, installed, failed, attempts>>
    /\ DownloadFrame

\* lines 246-250: an item found under contentRoot counts as installed
DownloadPresent ==
    /\ step_pc = "loop"
    /\ next_wid <= Len(to_install)
    /\ is_downloaded(to_install[next_wid])
    /\ installed' = Append(installed, to_install[next_wid])
    /\ next_wid' = next_wid + 1
    /\ UNCHANGED <<step_pc, step_exit, on_disk, to_install, failed, attempts>>
    /\ DownloadFrame

\* lines 252-263: one call of steamcmd for the item, which ends in one of
\* the two lists.  steamcmd_download (132-168) turns a timeout into 124 and
\* a missing binary into 127; any other error of subprocess.run, such as a
\* binary that may not be executed, is caught nowhere: the run ends there
\* with a traceback and exit status 1, and nothing is saved.
DownloadAttempt ==
    /\ step_pc = "loop"
    /\ next_wid <= Len(to_install)
    /\ ~is_downloaded(to_install[next_wid])
    /\ attempts' = Append(attempts, to_install[next_wid])
    /\ \E raises \in BOOLEAN, rc \in ReturnCodes :
          IF raises
          THEN /\ step_pc' = "crashed"
               /\ step_exit' = 1
               /\ UNCHANGED <<installed, failed, on_disk, next_wid>>
          ELSE /\ IF rc = 0
                  THEN /\ installed' = Append(installed, to_install[next_wid])
                       /\ on_disk' = on_disk \cup {to_install[next_wid]}
                       /\ UNCHANGED failed
                  ELSE /\ failed' = Append(failed, to_install[next_wid])
                       /\ UNCHANGED <<installed, on_disk>>
               /\ next_wid' = next_wid + 1
               /\ UNCHANGED <<step_pc, step_exit>>
    /\ UNCHANGED to_install
    /\ DownloadFrame

\* lines 265-276: the lists are saved and the exit status is 1 when a
\* download failed
DownloadFinish ==
    /\ step_pc = "loop"
    /\ next_wid > Len(to_install)
    /\ step_pc' = "done"
    /\ step_exit' = IF failed # <<>> THEN 1 ELSE 0
    /\ UNCHANGED <<on_disk, to_install, next_wid, installed, failed, attempts>>
    /\ DownloadFrame

DownloadInit ==
    /\ TopoIdle
    /\ ScanIdle
    /\ MainIdle
    /\ ToolCoreIdle
    /\ registry \in Registries
    /\ step_pc = "start"
    /\ step_exit = 0
    /\ sync_failures = {}
    /\ content_root \in {"unset", "content"}
    /\ on_disk \in SUBSET {1, 2}
    /\ to_install = <<>>
    /\ next_wid = 1
    /\ installed = <<>>
    /\ failed = <<>>
    /\ attempts = <<>>
    /\ map_dirs = <<>>
    /\ map_sources = <<>>
    /\ claims = <<>>
    /\ prev_exit = 0
    /\ prev_failure = "none"

DownloadNext ==
    \/ DownloadPlan
    \/ DownloadPresent
    \/ DownloadAttempt
    \/ DownloadFinish

SpecDownload == DownloadInit /\ [][DownloadNext]_vars

(***************************************************************************)
(* init/update_server_ini_map.py.  map_dirs gives, for every workshop      *)
(* item, the directories found under a media/maps directory of the item:   *)
(* the name of the directory, the id of the mod.info above it (NoId when   *)
(* there is none), link (the directory is reached only through a symlink:  *)
(* it, or the media or maps directory above it, is one), map_info (it      *)
(* holds a map.info), and its files named <cx>_<cy>.lotheader, each with   *)
(* its cell and whether the file is a symlink.                             *)
(***************************************************************************)
Lot(coord, link) == [coord |-> coord, link |-> link]

MapDir(name, owner, link, map_info, lots) ==
    [name |-> name, owner |-> owner, link |-> link, map_info |-> map_info,
     lots |-> lots]

AbsentMapItem == [is_dir |-> FALSE, dirs |-> <<>>]

MapItem(dirs) == [is_dir |-> TRUE, dirs |-> dirs]

\* _is_map_dir: a map.info, or a .lotheader file that is no symlink
is_map_dir(d) == d.map_info \/ \E i \in 1..Len(d.lots) : ~d.lots[i].link

\* _discover_map_dirs_recursive: symlinked media, maps and map directories
\* are passed over
RECURSIVE discover_map_dirs_recursive(_, _)
discover_map_dirs_recursive(dirs, i) ==
    IF i > Len(dirs) THEN <<>>
    ELSE IF ~dirs[i].link /\ is_map_dir(dirs[i])
         THEN <<dirs[i]>> \o discover_map_dirs_recursive(dirs, i + 1)
         ELSE discover_map_dirs_recursive(dirs, i + 1)

MapSource(wid, d) ==
    [workshop_id |-> wid, map_name |-> d.name, map_dir |-> d, mod_id |-> d.owner]

\* discover_maps_for_workshop_item: a map whose owner is known and not
\* enabled is left out; filter says enabled_mod_ids is not None
RECURSIVE SourcesLoop(_, _, _, _, _)
SourcesLoop(found, i, wid, filter, enabled) ==
    IF i > Len(found) THEN <<>>
    ELSE IF filter /\ found[i].owner # NoId /\ found[i].owner \notin enabled
         THEN SourcesLoop(found, i + 1, wid, filter, enabled)
         ELSE <<MapSource(wid, found[i])>> \o
              SourcesLoop(found, i + 1, wid, filter, enabled)

discover_maps_for_workshop_item(item, wid, filter, enabled) ==
    SourcesLoop(discover_map_dirs_recursive(item.dirs, 1), 1, wid, filter, enabled)

\* scan_maps, the loop over the enabled items (all of them on disk)
RECURSIVE scan_maps(_, _, _, _, _)
scan_maps(root, wids, i, filter, enabled) ==
    IF i > Len(wids) THEN <<>>
    ELSE discover_maps_for_workshop_item(root[wids[i]], wids[i], filter, enabled)
         \o scan_maps(root, wids, i + 1, filter, enabled)

\* update_server_ini_map.extract_enabled_workshop_ids
map_extract_enabled_workshop_ids(plan) ==
    ExtendNew(<<>>, WorkshopIdsLoop(plan, 1, <<>>), 1)

\* update_server_ini_map.extract_enabled_mod_ids
extract_enabled_mod_ids(plan) == OrderedModIdsLoop(plan, 1, <<>>)

MapCellClaim(src, lot) ==
    [map_name |-> src.map_name, workshop_id |-> src.workshop_id, cell |-> lot.coord]

\* _iter_lotheaders: symlinked files are passed over
RECURSIVE iter_lotheaders(_, _)
iter_lotheaders(lots, i) ==
    IF i > Len(lots) THEN <<>>
    ELSE IF lots[i].link THEN iter_lotheaders(lots, i + 1)
         ELSE <<lots[i]>> \o iter_lotheaders(lots, i + 1)

\* discover_cell_claims
RECURSIVE discover_cell_claims(_, _)
discover_cell_claims(sources, i) ==
    IF i > Len(sources) THEN <<>>
    ELSE LET lhs == iter_lotheaders(sources[i].map_dir.lots, 1)
         IN  [k \in 1..Len(lhs) |-> MapCellClaim(sources[i], lhs[k])]
             \o discover_cell_claims(sources, i + 1)

\* detect_conflicts with maps told apart by their name only
OverlapsByNameOnly(cs) ==
    {c \in {cs[i].cell : i \in 1..Len(cs)} :
        Cardinality({cs[i].map_name : i \in {j \in 1..Len(cs) : cs[j].cell = c}}) > 1}

\* detect_conflicts: the cells that more than one (map name, workshop item)
\* pair claims
Overlaps(cs) ==
    {c \in {cs[i].cell : i \in 1..Len(cs)} :
        Cardinality({<<cs[i].map_name, cs[i].workshop_id>> :
                        i \in {j \in 1..Len(cs) : cs[j].cell = c}}) > 1}

\* order_maps: the base map, then the names item by item
RECURSIVE NamesOfItems(_, _, _)
NamesOfItems(sources, wids, i) ==
    IF i > Len(wids) THEN <<>>
    ELSE LET mine == Select(sources, 1, {x \in ToSet(sources) : x.workshop_id = wids[i]})
         IN  [k \in 1..Len(mine) |-> mine[k].map_name]
             \o NamesOfItems(sources, wids, i + 1)

order_maps(sources, base_map, wids) ==
    ExtendNew(<<>>, <<base_map>> \o NamesOfItems(sources, wids, 1), 1)

\* --base-map, by default "Muldraugh, KY"
BaseMap == VANILLA_MAPS[1]

MapStepFrame ==
    /\ UNCHANGED topoVars
    /\ UNCHANGED scanVars
    /\ UNCHANGED <<mods_txt_exists, ini_exists, mods_txt, public_name,
                   workshop_to_mods, all_maps, stdout>>
    /\ UNCHANGED toolCore
    /\ UNCHANGED <<registry, sync_failures, content_root, on_disk, to_install,
                   next_wid, installed, failed, attempts, map_dirs, prev_exit,
                   prev_failure>>

\* main, lines 656-675: the inputs, the enabled IDs and scan_maps, each of
\* which ends the run with exit status 2 when something is missing
MapStepScan ==
    /\ step_pc = "start"
    /\ LET wids == map_extract_enabled_workshop_ids(registry)
           enabled == ToSet(extract_enabled_mod_ids(registry))
       IN  IF \/ ~ini_exists
              \/ wids = <<>>
              \/ \E i \in 1..Len(wids) : ~map_dirs[wids[i]].is_dir
           THEN /\ step_pc' = "fatal_input"
                /\ step_exit' = 2
                /\ UNCHANGED map_sources
           ELSE /\ map_sources' = scan_maps(map_dirs, wids, 1, enabled # {}, enabled)
                /\ step_pc' = "scanned"
                /\ UNCHANGED step_exit
    /\ UNCHANGED <<ini, writes, claims>>
    /\ MapStepFrame

\* main, line 686: detect_conflicts
MapStepDetectConflicts ==
    /\ step_pc = "scanned"
    /\ claims' = discover_cell_claims(map_sources, 1)
    /\ IF Overlaps(claims') # {}
       THEN /\ step_pc' = "fatal_overlap"
            /\ step_exit' = 2
       ELSE /\ step_pc' = "checked"
            /\ UNCHANGED step_exit
    /\ UNCHANGED <<ini, writes, map_sources>>
    /\ MapStepFrame

\* main, lines 688-708: --require-map, the order, Map= and the spawnregions
\* file when --spawnregions-out is given
MapStepWrite ==
    /\ step_pc = "checked"
    /\ \E require_map, spawnregions_out \in BOOLEAN :
          IF require_map /\ map_sources = <<>>
          THEN /\ step_pc' = "fatal_require"
               /\ step_exit' = 2
               /\ UNCHANGED <<ini, writes>>
          ELSE LET map_names_ordered ==
                      order_maps(map_sources, BaseMap,
                                 map_extract_enabled_workshop_ids(registry))
               IN  /\ ini' = rewrite_ini_map_key(ini, map_names_ordered)
                   /\ writes' =
                         IF spawnregions_out
                         THEN writes \o <<FileWrite("ini", ini'),
                                          FileWrite("spawnregions", map_names_ordered)>>
                         ELSE Append(writes, FileWrite("ini", ini'))
                   /\ step_pc' = "done"
                   /\ step_exit' = 0
    /\ UNCHANGED <<map_sources, claims>>
    /\ MapStepFrame

(***************************************************************************)
(* One workshop cache read by update_server_ini_map or by process_mods.    *)
(* Item 1 ships mod 1 and the sub-mod, item 2 ships mod 2.  Map 201 has    *)
(* the lower-case link 301, map 203 the lower-case link 303.               *)
(***************************************************************************)
Cell == <<5, 7>>

OtherCell == <<5, 8>>

MapDirsOfItem1 ==
    {MapDir(201, 1, FALSE, TRUE, <<Lot(Cell, FALSE)>>),
     MapDir(201, 1, FALSE, TRUE, <<Lot(Cell, TRUE)>>),
     MapDir(201, 1, FALSE, FALSE, <<Lot(Cell, TRUE)>>),
     MapDir(301, 1, TRUE, TRUE, <<Lot(Cell, FALSE)>>),
     MapDir(202, 1, FALSE, TRUE, <<>>),
     MapDir(202, SubMod, FALSE, TRUE, <<Lot(Cell, FALSE)>>),
     MapDir(201, SubMod, FALSE, TRUE, <<Lot(Cell, FALSE)>>),
     MapDir(202, NoId, FALSE, TRUE, <<Lot(Cell, FALSE)>>)}

MapDirsOfItem2 ==
    {MapDir(201, 2, FALSE, TRUE, <<Lot(Cell, FALSE)>>),
     MapDir(203, 2, FALSE, TRUE, <<Lot(Cell, FALSE)>>),
     MapDir(203, 2, FALSE, TRUE, <<Lot(Cell, TRUE)>>),
     MapDir(203, 2, FALSE, TRUE, <<Lot(OtherCell, FALSE)>>),
     MapDir(303, 2, TRUE, TRUE, <<Lot(Cell, FALSE)>>)}

\* two directories of one item differ in their name or in their mod
MapItems1 ==
    {AbsentMapItem, MapItem(<<>>)}
    \cup {MapItem(<<d>>) : d \in MapDirsOfItem1}
    \cup UNION {{MapItem(<<d, e>>) :
                    e \in {x \in MapDirsOfItem1 :
                              x.name # d.name \/ x.owner # d.owner}} :
                  d \in MapDirsOfItem1}

MapItems2 ==
    {AbsentMapItem, MapItem(<<>>)} \cup {MapItem(<<d>>) : d \in MapDirsOfItem2}

MapCaches ==
    {[w \in MainItems |-> IF w = 1 THEN a ELSE b] : a \in MapItems1, b \in MapItems2}

\* the registry: both items, each mod enabled or not
MapRegistries ==
    {<<RegEntry(1, "absent", <<RegMod(1, f1), RegMod(SubMod, f3)>>),
       RegEntry(2, "absent", <<RegMod(2, f2)>>)>> :
        f1 \in {"true", "false"}, f2 \in {"true", "false"}, f3 \in {"true", "false"}}

\* what process_mods finds in an item: the mod.info files of its mods, each
\* with the directories of the media/maps beside it (iterdir and is_dir
\* follow symlinks), and the .lotheader files rglob yields (symlinked files
\* among them; rglob does not descend into a symlinked directory)
RECURSIVE LotsOfDirs(_, _)
LotsOfDirs(dirs, i) ==
    IF i > Len(dirs) THEN <<>>
    ELSE IF dirs[i].link THEN LotsOfDirs(dirs, i + 1)
         ELSE [k \in 1..Len(dirs[i].lots) |-> dirs[i].lots[k].coord]
              \o LotsOfDirs(dirs, i + 1)

MapNamesOf(item, m) ==
    {item.dirs[i].name : i \in {j \in 1..Len(item.dirs) : item.dirs[j].owner = m}}

ItemAsScanned(item, ids, reqs) ==
    IF ~item.is_dir THEN AbsentItem
    ELSE ItemDir([i \in 1..Len(ids) |->
                     ModInfoFile(i, ids[i], reqs[i], NoName, <<>>,
                                 MapNamesOf(item, ids[i]))],
                 LotsOfDirs(item.dirs, 1))

CacheAsScanned(cache, req) ==
    [w \in MainItems |->
        IF w = 1 THEN ItemAsScanned(cache[1], <<1, SubMod>>, <<req, <<>>>>)
        ELSE ItemAsScanned(cache[2], <<2>>, <<<<>>>>)]

MapStepInit ==
    /\ map_dirs \in MapCaches
    /\ \E program \in {"update_server_ini_map", "process_mods"} :
          IF program = "process_mods"
          THEN /\ pc = "validate"
               /\ step_pc = "idle"
               /\ registry = <<>>
               /\ workshop_root \in {CacheAsScanned(map_dirs, req) : req \in {<<>>, <<2>>}}
               /\ mods_txt_exists = TRUE
               /\ mods_txt = <<WorkshopLine(1), ModLine(1), ModLine(SubMod), EndLine,
                               BlankLine, WorkshopLine(2), ModLine(2), EndLine>>
          ELSE /\ pc = "idle"
               /\ step_pc = "start"
               /\ registry \in MapRegistries
               /\ workshop_root = <<>>
               /\ mods_txt_exists = FALSE
               /\ mods_txt = <<>>
    /\ ini_exists = TRUE
    /\ ini \in {<<KeyLine("other", "Public=", <<1>>), KeyLine("map", "Map=", <<9>>)>>,
                <<KeyLine("other", "Public=", <<1>>)>>}
    /\ workshop_ids = <<>>
    /\ tiledef_conflicts = EmptyDict
    /\ map_coord_conflicts = EmptyDict
    /\ vm_tiledef_conflicts = EmptyDict
    /\ vm_map_conflicts = EmptyDict
    /\ scan_pc = "idle"
    /\ public_name = NoPublicName
    /\ workshop_to_mods = EmptyDict
    /\ all_maps = <<>>
    /\ stdout = <<>>
    /\ writes = <<>>
    /\ mod_ids = <<>>
    /\ requires_map = <<>>
    /\ prereqs = <<>>
    /\ in_degree = <<>>
    /\ dependents = <<>>
    /\ heap = {}
    /\ result = <<>>
    /\ reorder_notes = <<>>
    /\ exit_status = 0
    /\ error = NoError
    /\ ToolCoreIdle
    /\ step_exit = 0
    /\ sync_failures = {}
    /\ content_root = "unset"
    /\ on_disk = {}
    /\ to_install = <<>>
    /\ next_wid = 1
    /\ installed = <<>>
    /\ failed = <<>>
    /\ attempts = <<>>
    /\ map_sources = <<>>
    /\ claims = <<>>
    /\ prev_exit = 0
    /\ prev_failure = "none"

MapStepNext ==
    \/ MapStepScan
    \/ MapStepDetectConflicts
    \/ MapStepWrite
    \/ MainNext

SpecMapStep == MapStepInit /\ [][MapStepNext]_vars

(***************************************************************************)
(* Inputs of ensure_topological_order.                                     *)
(*                                                                         *)
(* Exhaustive family: Mod IDs 1..NumMods.  The mods listed in mods.txt are *)
(* named by their declared position, so mod_ids is <<1, ..., k>>; the IDs  *)
(* above k are mods that are not listed.  requires_map is any mapping of a *)
(* subset of the IDs (the mods whose mod.info was read) to require= lists, *)
(* with duplicates and self-references allowed.                            *)
(*                                                                         *)
(* Long family: rings and descending chains of more than CycleSampleCap    *)
(* mods, so that the cycle message is truncated.                           *)
(***************************************************************************)
Ids == 1..NumMods

ReqLists == UNION {[1..n -> Ids] : n \in ReqLens}

RECURSIVE SumLen(_, _)
SumLen(f, S) ==
    IF S = {} THEN 0
    ELSE LET x == CHOOSE y \in S : TRUE
         IN  Len(f[x]) + SumLen(f, S \ {x})

ReqMaps ==
    UNION {{f \in [K -> ReqLists] : SumLen(f, K) <= MaxReqs} : K \in SUBSET Ids}

SmallInputs ==
    {[mod_ids |-> [i \in 1..k |-> i], requires_map |-> rm] :
        k \in 0..NumMods, rm \in ReqMaps}

Ring(n) == [i \in 1..n |-> <<(i % n) + 1>>]

\* every mod requires its successor; the last one requires nothing
Chain(n) == [i \in 1..n |-> IF i < n THEN <<i + 1>> ELSE <<>>]

\* a ring over 2..n with mod 1 free of requirements
RingWithFreeHead(n) == [i \in 1..n |-> IF i = 1 THEN <<>>
                            ELSE IF i = n THEN <<2>> ELSE <<i + 1>>]

LongInputs ==
    UNION {{[mod_ids |-> [i \in 1..n |-> i], requires_map |-> rm] :
               rm \in {Ring(n), Chain(n), RingWithFreeHead(n)}} :
           n \in (CycleSampleCap + 1)..MaxChain}

TopoInit ==
    /\ \E inp \in SmallInputs \cup LongInputs :
          /\ mod_ids = inp.mod_ids
          /\ requires_map = inp.requires_map
    /\ pc = "build"
    /\ prereqs = <<>>
    /\ in_degree = <<>>
    /\ dependents = <<>>
    /\ heap = {}
    /\ result = <<>>
    /\ reorder_notes = <<>>
    /\ exit_status = 0
    /\ error = NoError
    /\ ScanIdle
    /\ MainIdle
    /\ ToolIdle

TopoNext == BuildPrereqs \/ FastCheck \/ KahnInit \/ KahnPop \/ KahnFinish

SpecTopo == TopoInit /\ [][TopoNext]_vars

(***************************************************************************)
(* The dependency graph as the specification describes it, stated over the *)
(* inputs alone.                                                           *)
(***************************************************************************)
Listed == ToSet(mod_ids)

Known == DOMAIN requires_map

\* d declares p and p's own metadata has been observed
DeclaredKnown(d, p) ==
    /\ d \in Listed
    /\ d \in Known
    /\ p \in ToSet(requires_map[d])
    /\ p \in Known

\* an effective edge: dependent d requires prerequisite p
EffEdge(d, p) == DeclaredKnown(d, p) /\ p \in Listed

\* d requires p, p is known, p is not listed
MissingDep(d, p) == DeclaredKnown(d, p) /\ p \notin Listed

AllIds == Listed \cup Known \cup UNION {ToSet(requires_map[k]) : k \in Known}

HasMissingDep == \E d \in Listed, p \in AllIds : MissingDep(d, p)

RECURSIVE Reachable(_)
Reachable(S) ==
    LET next == S \cup {p \in Listed : \E d \in S : EffEdge(d, p)}
    IN  IF next = S THEN S ELSE Reachable(next)

OnCycle(m) == m \in Reachable({p \in Listed : EffEdge(m, p)})

HasCycle == \E m \in Listed : OnCycle(m)

\* What elimination of prerequisite-free nodes leaves behind.
RECURSIVE Residual(_)
Residual(S) ==
    LET free == {m \in S : \A p \in S : ~EffEdge(m, p)}
    IN  IF free = {} THEN S ELSE Residual(S \ free)

Returned == pc = "returned"

Failed == pc = "exit"

Before(s, a, b) ==
    /\ a \in ToSet(s)
    /\ b \in ToSet(s)
    /\ PosIn(s, a) < PosIn(s, b)

(***************************************************************************)
(* C1.  Whenever ensure_topological_order returns an order, every          *)
(* effective dependency edge (d requires p, p listed and known) has p at a *)
(* strictly smaller position than d in the returned order.                 *)
(***************************************************************************)
C1_OrderValidity ==
    Returned => \A d \in Listed, p \in Listed :
                    EffEdge(d, p) => Before(result, p, d)

C1_Witness ==
    /\ Returned
    /\ result # mod_ids
    /\ \E d \in Listed, p \in Listed : EffEdge(d, p) /\ Before(mod_ids, d, p)

(***************************************************************************)
(* C2.  Whenever ensure_topological_order returns, the returned order is a *)
(* permutation of mod_ids: same length, same elements, no element twice;   *)
(* on the Kahn path no mod is emitted twice at any step.                   *)
(***************************************************************************)
C2_Permutation ==
    /\ IsDistinct(result)
    /\ ToSet(result) \subseteq Listed
    /\ Returned => /\ Len(result) = Len(mod_ids)
                   /\ ToSet(result) = Listed

C2_Witness ==
    /\ Returned
    /\ reorder_notes # <<>>
    /\ Len(result) >= 3

(***************************************************************************)
(* C3.  If the input order already places every prerequisite before its    *)
(* dependent, the fast path is taken: the Kahn elimination is never        *)
(* entered, the returned order equals the input order element for element  *)
(* and the list of reorder notes is empty.                                 *)
(***************************************************************************)
InputAlreadyValid ==
    \A d \in Listed, p \in AllIds :
        DeclaredKnown(d, p) => Before(mod_ids, p, d)

C3_MinimalReordering ==
    InputAlreadyValid =>
        /\ pc \in {"build", "fast", "returned"}
        /\ Returned => (result = mod_ids /\ reorder_notes = <<>>)

C3_Witness ==
    /\ Returned
    /\ InputAlreadyValid
    /\ Len(mod_ids) >= 3
    /\ \E d \in Listed, p \in Listed : EffEdge(d, p)

(***************************************************************************)
(* C4.  Original statement: if the effective dependency graph contains a   *)
(* cycle, ensure_topological_order never returns; it fails with exit       *)
(* status 1 and the failure reports the full unresolved node set, listing  *)
(* at most 10 of them by original position together with the total count.  *)
(***************************************************************************)
UnresolvedInOrder == Filter(mod_ids, 1, Listed \ Residual(Listed))

CycleReported ==
    /\ error.kind = "cycle"
    /\ error.count = Cardinality(Residual(Listed))
    /\ Len(error.listed) <= CycleSampleCap
    /\ error.listed = SubSeq(UnresolvedInOrder, 1, Len(error.listed))
    /\ Len(error.listed) = Min2(CycleSampleCap, error.count)
    /\ error.more = (error.count > Len(error.listed))

C4_Original ==
    HasCycle => /\ ~Returned
                /\ Failed => (exit_status = 1 /\ CycleReported)

(***************************************************************************)
(* C4 as amended.  If the effective dependency graph contains a cycle,     *)
(* ensure_topological_order never returns and fails with exit status 1;    *)
(* when no listed mod requires a known mod that is not listed, the failure *)
(* reports the full unresolved node set (at most 10 by original position,  *)
(* with the total count); otherwise the failure is the missing-dependency  *)
(* error, which is raised while the graph is built.                        *)
(***************************************************************************)
C4_CycleFails ==
    HasCycle => /\ ~Returned
                /\ Failed => /\ exit_status = 1
                             /\ IF HasMissingDep
                                THEN error.kind = "missing"
                                ELSE CycleReported

C4_Witness ==
    /\ Failed
    /\ HasCycle
    /\ error.kind = "cycle"
    /\ error.more
    /\ error.count > Len(error.listed)

(***************************************************************************)
(* C5.  Original statement: if a listed mod X declares a prerequisite Y    *)
(* that is known but not listed, ensure_topological_order fails with exit  *)
(* status 1 and a message naming both X and Y, and never returns.          *)
(***************************************************************************)
C5_Original ==
    \A x \in Listed, y \in AllIds :
        MissingDep(x, y) =>
            /\ ~Returned
            /\ Failed => /\ exit_status = 1
                         /\ error.kind = "missing"
                         /\ error.mod = x
                         /\ error.dep = y

(***************************************************************************)
(* C5 as amended.  If some listed mod declares a prerequisite that is      *)
(* known but not listed, ensure_topological_order never returns an order;  *)
(* it fails with exit status 1 and a message naming the first such pair:   *)
(* X is the first mod in mod_ids that has such a prerequisite and Y is the *)
(* first such prerequisite in X's require list.                            *)
(***************************************************************************)
FirstMissingMod ==
    CHOOSE x \in Listed :
        /\ \E y \in AllIds : MissingDep(x, y)
        /\ \A z \in Listed : (\E y \in AllIds : MissingDep(z, y))
                                => PosIn(mod_ids, x) <= PosIn(mod_ids, z)

FirstMissingDepOf(x) ==
    LET r == requires_map[x]
        i == CHOOSE k \in 1..Len(r) :
                 /\ MissingDep(x, r[k])
                 /\ \A j \in 1..(k - 1) : ~MissingDep(x, r[j])
    IN  r[i]

C5_MissingDependencyRejected ==
    HasMissingDep =>
        /\ ~Returned
        /\ pc \in {"build", "exit"}
        /\ Failed => /\ exit_status = 1
                     /\ error.kind = "missing"
                     /\ error.mod = FirstMissingMod
                     /\ error.dep = FirstMissingDepOf(FirstMissingMod)

C5_Witness ==
    /\ Failed
    /\ error.kind = "missing"
    /\ \E x1, x2 \in Listed, y1, y2 \in AllIds :
          /\ <<x1, y1>> # <<x2, y2>>
          /\ MissingDep(x1, y1)
          /\ MissingDep(x2, y2)

(***************************************************************************)
(* C6.  When the input order violates some edge, every step of the         *)
(* elimination emits the not-yet-emitted node with the smallest original   *)
(* position among the nodes whose prerequisites have all been emitted, and *)
(* the elimination only stops when no such node is left; the output is     *)
(* therefore a function of the input order and the edge set.               *)
(***************************************************************************)
Emitted == ToSet(result)

Ready ==
    {m \in Listed \ Emitted : \A p \in Listed : EffEdge(m, p) => p \in Emitted}

SmallestReady ==
    CHOOSE m \in Ready : \A o \in Ready : PosIn(mod_ids, m) <= PosIn(mod_ids, o)

RECURSIVE KnownOnly(_, _)
KnownOnly(r, i) ==
    IF i > Len(r) THEN <<>>
    ELSE IF r[i] \in Known THEN <<r[i]>> \o KnownOnly(r, i + 1)
         ELSE KnownOnly(r, i + 1)

WithoutUnobserved == [k \in Known |-> KnownOnly(requires_map[k], 1)]

HasUnobservedDep(listed) ==
    \E d \in Listed \cap Known : \E p \in ToSet(requires_map[d]) :
        p \notin Known /\ (p \in Listed) = listed

C7_UnobservedIgnored ==
    pc # "build" =>
        /\ Failed /\ error.kind = "missing" => error.dep \in Known
        /\ ~(Failed /\ error.kind = "missing") =>
              \A m \in Listed : prereqs[m] = {p \in Listed : EffEdge(m, p)}
        /\ LET b == BuildPrereqsOf(mod_ids, WithoutUnobserved)
           IN  IF b.fatal
               THEN /\ Failed
                    /\ error = [kind |-> "missing", mod |-> b.mod, dep |-> b.dep]
               ELSE /\ prereqs = b.prereqs
                    /\ Failed => error.kind = "cycle"

C7_Witness ==
    /\ Returned
    /\ HasUnobservedDep(TRUE)
    /\ HasUnobservedDep(FALSE)
    /\ result = mod_ids
    /\ \E d \in Listed \cap Known : \E p \in ToSet(requires_map[d]) :
          p \notin Known /\ Before(mod_ids, d, p)

(***************************************************************************)
(* The conflict notions of the specification, stated over the cache.       *)
(***************************************************************************)
OnDiskListed == {w \in ToSet(workshop_ids) : workshop_root[w].is_dir}

TiledefHolders(n) ==
    {w \in OnDiskListed :
        \E i \in 1..Len(workshop_root[w].modinfos) :
            n \in ToSet(workshop_root[w].modinfos[i].tiledefs)}

CoordHolders(c) ==
    {w \in OnDiskListed : c \in ToSet(workshop_root[w].lotheaders)}

ItemLabel(w) ==
    [name |-> IF workshop_root[w].modinfos = <<>> THEN NoName
              ELSE workshop_root[w].modinfos[1].name,
     dir  |-> w]

\* d holds exactly the values with two or more holders, each with one label
\* per holder
ConflictReport(d, holders(_), values) ==
    /\ DOMAIN d \subseteq values
    /\ \A v \in values : (v \in DOMAIN d) <=> (Cardinality(holders(v)) >= 2)
    /\ \A v \in DOMAIN d :
          /\ Len(d[v]) > 1
          /\ Len(d[v]) = Cardinality(holders(v))
          /\ \A w \in holders(v) :
                Cardinality({i \in 1..Len(d[v]) : d[v][i] = ItemLabel(w)}) = 1
          /\ \A i \in 1..Len(d[v]) : \E w \in holders(v) : d[v][i] = ItemLabel(w)

TimesClaimed(w, n) ==
    LET t == TiledefNumbers(workshop_root[w].modinfos, 1)
    IN  Cardinality({i \in 1..Len(t) : t[i] = n})

(***************************************************************************)
(* C8.  For the workshop ids parsed from mods.txt, check_tiledef_conflicts *)
(* and check_map_coord_conflicts (and their twins in validate_maps) each   *)
(* return a mapping that contains a claim value if and only if at least    *)
(* two distinct listed workshop items on disk hold it; a value claimed     *)
(* several times inside one item counts once, and every owner list has     *)
(* exactly one label per claiming item and more than one entry.            *)
(***************************************************************************)
C8_ConflictsExact ==
    /\ (scan_pc \in {"validate_maps", "done"}) =>
          (/\ ConflictReport(tiledef_conflicts, TiledefHolders, FileNumbers)
           /\ ConflictReport(map_coord_conflicts, CoordHolders, Coords))
    /\ (scan_pc = "done") =>
          (/\ ConflictReport(vm_tiledef_conflicts, TiledefHolders, FileNumbers)
           /\ ConflictReport(vm_map_conflicts, CoordHolders, Coords))

C8_Witness ==
    /\ scan_pc = "done"
    /\ \E n \in FileNumbers, m \in FileNumbers :
          /\ n \in DOMAIN tiledef_conflicts
          /\ \E w \in TiledefHolders(n) : TimesClaimed(w, n) >= 2
          /\ Cardinality(TiledefHolders(m)) = 1
          /\ m \notin DOMAIN tiledef_conflicts

(***************************************************************************)
(* C9.  If two distinct listed workshop items both claim a coordinate,     *)
(* check_map_coord_conflicts reports that coordinate with both items'      *)
(* labels, whichever of the two comes first in the workshop id list: under *)
(* every reordering of the list the set of conflicting coordinates and the *)
(* set of owners of each are the same.                                     *)
(***************************************************************************)
Reorderings(s) ==
    {[i \in 1..Len(s) |-> s[f[i]]] : f \in Permutations(1..Len(s))}

SameConflicts(d, e) ==
    /\ DOMAIN d = DOMAIN e
    /\ \A c \in DOMAIN d : ToSet(d[c]) = ToSet(e[c])

BothReported(d) ==
    \A c \in Coords : \A w1 \in CoordHolders(c), w2 \in CoordHolders(c) :
        (w1 # w2) => (/\ c \in DOMAIN d
                      /\ ItemLabel(w1) \in ToSet(d[c])
                      /\ ItemLabel(w2) \in ToSet(d[c]))

C9_ConflictSymmetry ==
    (scan_pc \in {"validate_maps", "done"}) =>
        (/\ BothReported(map_coord_conflicts)
         /\ \A p \in Reorderings(workshop_ids) :
               LET r == check_map_coord_conflicts(workshop_root, p)
               IN  BothReported(r) /\ SameConflicts(r, map_coord_conflicts))

C9_Witness ==
    /\ scan_pc = "done"
    /\ <<5, 7>> \in DOMAIN map_coord_conflicts
    /\ Len(map_coord_conflicts[<<5, 7>>]) = 2
    /\ \E p \in Reorderings(workshop_ids) :
          LET r == check_map_coord_conflicts(workshop_root, p)
          IN  /\ r[<<5, 7>>] # map_coord_conflicts[<<5, 7>>]
              /\ ToSet(r[<<5, 7>>]) = ToSet(map_coord_conflicts[<<5, 7>>])

(***************************************************************************)
(* C10.  In process_mods main a coordinate collision is fatal: once        *)
(* check_map_coord_conflicts has reported at least one conflict, neither   *)
(* mods.txt nor the INI file is ever written and the run does not end      *)
(* with exit status 0.                                                     *)
(***************************************************************************)
ConflictChecksDone == pc \notin {"validate", "parse", "collect", "conflicts"}

C10_CoordinateConflictFatal ==
    (ConflictChecksDone /\ map_coord_conflicts # EmptyDict) =>
        (/\ writes = <<>>
         /\ pc # "done"
         /\ (pc = "exit" => exit_status # 0))

\* a run that found a coordinate conflict, wrote the INI file and ended
\* with exit status 0
C10_Witness ==
    /\ pc = "done"
    /\ exit_status = 0
    /\ <<5, 7>> \in DOMAIN map_coord_conflicts
    /\ \E i \in 1..Len(writes) : writes[i].path = "ini"
    /\ stdout # <<>>
    /\ "WARNING: Continuing despite map conflicts" \in ToSet(stdout)

(***************************************************************************)
(* C11.  In process_mods main a tiledef fileNumber collision is only a     *)
(* warning: once check_tiledef_conflicts has reported a conflict the       *)
(* warning is printed, the run can only fail through                       *)
(* ensure_topological_order, and a run that ends does so with exit status  *)
(* 0 after writing Mods=, WorkshopItems= and Map= into the INI file.       *)
(***************************************************************************)
\* the text of line is in the document, as a line or behind an
\* unterminated line
Carries(doc, line) ==
    \E i \in 1..Len(doc) : doc[i] = line \/ line \in ToSet(doc[i].tail)

IniWrites == {i \in 1..Len(writes) : writes[i].path = "ini"}

TiledefConflictFound == ConflictChecksDone /\ tiledef_conflicts # EmptyDict

InputMissing == ~mods_txt_exists \/ ~ini_exists

C12_FailureWritesNothing ==
    /\ [](/\ (InputMissing /\ pc # "validate") =>
                (pc = "exit" /\ error.kind \in {"mods_txt_not_found",
                                                "ini_not_found"})
          /\ (pc = "exit") => (exit_status # 0 /\ writes = <<>>))
    /\ [][(writes' = writes) => (mods_txt' = mods_txt /\ ini' = ini)]_vars

\* a run stopped by a dependency cycle after the conflict checks
C12_Witness ==
    /\ pc = "exit"
    /\ error.kind = "cycle"
    /\ exit_status = 1
    /\ ConflictChecksDone
    /\ writes = <<>>

(***************************************************************************)
(* The INI rewrite as the specification describes it, stated over the      *)
(* document read (original) and the document written (ini).                *)
(***************************************************************************)
\* the keys the applied rewriter replaces
Targets ==
    IF ini_tool = "update_ini" THEN {"mods", "workshopitems"}
    ELSE IF ini_tool = "rewrite_ini_keys"
    THEN {"mods", "workshopitems"} \cup (IF map_csv_given THEN {"map"} ELSE {})
    ELSE IF ini_tool \in {"update_map_line", "rewrite_ini_map_key"}
    THEN {"map"}
    ELSE {}

NewLine(key) ==
    IF key = "mods" THEN KeyLine("mods", "Mods=", NewMods)
    ELSE IF key = "workshopitems"
    THEN KeyLine("workshopitems", "WorkshopItems=", NewWorkshop)
    ELSE KeyLine("map", "Map=", NewMap)

IsTarget(doc, i) == doc[i].kind = "key" /\ doc[i].key \in Targets

\* line i is non-blank, no comment, no key line, and so is every line
\* between it and a target key line above it
ContOfTarget(doc, i) ==
    \E j \in 1..(i - 1) :
        /\ IsTarget(doc, j)
        /\ \A k \in (j + 1)..i : doc[k].kind = "cont"

\* the lines the rewrite leaves in place of the lines i.. of doc
RECURSIVE BodyFrom(_, _)
BodyFrom(doc, i) ==
    IF i > Len(doc) THEN <<>>
    ELSE (IF IsTarget(doc, i) THEN <<NewLine(doc[i].key)>>
          ELSE IF ContOfTarget(doc, i) THEN <<>>
          ELSE <<doc[i]>>)
         \o BodyFrom(doc, i + 1)

\* the line as it was read or written, without text put behind it later
OwnText(line) == [line EXCEPT !.tail = <<>>, !.nl = TRUE]

Rewritten == ini_runs >= 1

(***************************************************************************)
(* C13.  When update_ini, update_map_line, rewrite_ini_keys or             *)
(* rewrite_ini_map_key finds a target key line it emits the single line    *)
(* key=value and drops the continuation lines that directly follow it;     *)
(* the first other line and all lines after it are kept.  The written      *)
(* document begins with exactly these lines, in order (what follows them   *)
(* are the appended absent keys).                                          *)
(***************************************************************************)
C13_ContinuationSafeRewrite ==
    Rewritten =>
        LET body == BodyFrom(original, 1)
        IN  /\ Len(ini) >= Len(body)
            /\ \A i \in 1..Len(body) : OwnText(ini[i]) = OwnText(body[i])
            /\ \A i \in (Len(body) + 1)..Len(ini) :
                  ini[i].kind = "key" /\ ini[i].key \in Targets

\* 'Mods=', 'a', 'b', then an unrelated key line: Mods= is rewritten, a and
\* b are gone, the unrelated line stays
C13_Witness ==
    /\ ini_runs = 1
    /\ ini_tool \in {"update_ini", "rewrite_ini_keys"}
    /\ original = <<KeyLine("mods", "Mods=", OldValue),
                    IniLine("cont", "", "", OldValue, TRUE),
                    IniLine("cont", "", "", OldValue, TRUE),
                    KeyLine("other", "Public=", OldValue)>>
    /\ SubSeq(ini, 1, 2) = <<KeyLine("mods", "Mods=", NewMods),
                             KeyLine("other", "Public=", OldValue)>>
    /\ \A i \in 1..Len(ini) : ini[i].kind # "cont"

(***************************************************************************)
(* C14.  The INI rewrite leaves every line that is neither a target key    *)
(* line nor a continuation line of a target key unchanged in content and   *)
(* in relative order: the lines of the written document other than the     *)
(* target key lines are exactly those lines of the document read, also     *)
(* when the last line has no newline and absent keys are appended.         *)
(***************************************************************************)
\* the lines of doc from line i on that the rewrite has to keep
RECURSIVE KeptFrom(_, _)
KeptFrom(doc, i) ==
    IF i > Len(doc) THEN <<>>
    ELSE (IF IsTarget(doc, i) \/ ContOfTarget(doc, i) THEN <<>>
          ELSE <<doc[i]>>)
         \o KeptFrom(doc, i + 1)

\* the lines of doc from line i on that assign no target key
RECURSIVE OthersFrom(_, _)
OthersFrom(doc, i) ==
    IF i > Len(doc) THEN <<>>
    ELSE (IF IsTarget(doc, i) THEN <<>> ELSE <<doc[i]>>)
         \o OthersFrom(doc, i + 1)

C14_OtherLinesUnchanged ==
    Rewritten => OthersFrom(ini, 1) = KeptFrom(original, 1)

\* a last line without newline that has the appended key behind it
C14_Witness ==
    /\ ini_runs = 1
    /\ ini_tool = "update_ini"
    /\ original = <<Unterminated(<<KeyLine("other", "Public=", OldValue)>>)[1]>>
    /\ ini[1].tail = <<KeyLine("mods", "Mods=", NewMods)>>
    /\ ini[1] # original[1]

(***************************************************************************)
(* C15.  After the INI rewrite each target key is assigned by exactly one  *)
(* line of the document, and that line is key=<new value>, however many    *)
(* lines of the document read assigned the key and in whatever letter      *)
(* case.                                                                   *)
(***************************************************************************)
AssignedBy(doc, key) == {i \in 1..Len(doc) : IsKey(doc[i], key)}

C15_ExactlyOneLinePerKey ==
    Rewritten =>
        \A key \in Targets :
            /\ Cardinality(AssignedBy(ini, key)) = 1
            /\ \A i \in AssignedBy(ini, key) : ini[i] = NewLine(key)

\* a document that assigned Mods twice, in another letter case, still
\* assigns it twice after the rewrite
C15_Witness ==
    /\ ini_runs = 1
    /\ ini_tool \in {"update_ini", "rewrite_ini_keys"}
    /\ Cardinality(AssignedBy(original, "mods")) = 2
    /\ \A i \in AssignedBy(original, "mods") : original[i].spelling = "mods ="
    /\ Cardinality(AssignedBy(ini, "mods")) = 2
    /\ \A i \in AssignedBy(ini, "mods") : ini[i] = NewLine("mods")

(***************************************************************************)
(* C16.  A target key that no line of the document assigns is appended     *)
(* exactly once, as a line of its own, behind all existing lines, in the   *)
(* order Mods, WorkshopItems, Map; a key that a line of the document       *)
(* assigns is not appended.  The written document is therefore the         *)
(* rewritten lines of the document read followed by one line key=value     *)
(* for each absent target key, in that order.                              *)
(***************************************************************************)
KeyOrder == <<"mods", "workshopitems", "map">>

\* the target keys no line of doc assigns, in the order of KeyOrder from i on
RECURSIVE AbsentFrom(_, _)
AbsentFrom(doc, i) ==
    IF i > Len(KeyOrder) THEN <<>>
    ELSE (IF KeyOrder[i] \in Targets /\ AssignedBy(doc, KeyOrder[i]) = {}
          THEN <<NewLine(KeyOrder[i])>>
          ELSE <<>>)
         \o AbsentFrom(doc, i + 1)

C16_AbsentKeysAppendedOnce ==
    Rewritten => ini = BodyFrom(original, 1) \o AbsentFrom(original, 1)

\* a document whose only line is an unterminated continuation line, and no
\* Map key: the Map line is written behind that line, not as a line
C16_Witness ==
    /\ ini_runs = 1
    /\ ini_tool \in {"update_map_line", "rewrite_ini_map_key"}
    /\ Len(original) = 1
    /\ original[1].kind = "cont"
    /\ ~original[1].nl
    /\ Len(ini) = 1
    /\ ini[1].tail = AbsentFrom(original, 1)
    /\ AbsentFrom(original, 1) = <<NewLine("map")>>

(***************************************************************************)
(* C17.  The INI rewrite is idempotent: applying update_ini, update_map_   *)
(* line, rewrite_ini_keys or rewrite_ini_map_key a second time with the    *)
(* same values leaves the document exactly as the first application wrote  *)
(* it.                                                                     *)
(***************************************************************************)
AppliedTwice == ini_runs = 2

C17_RewriteIdempotent == AppliedTwice => ini = original

\* the second application to a document that was 'Public=' without newline
\* appends Mods a second time
C17_Witness ==
    /\ AppliedTwice
    /\ ini_tool = "update_ini"
    /\ Len(original) = 2
    /\ original[1].key = "other"
    /\ original[1].tail = <<NewLine("mods")>>
    /\ original[2] = NewLine("workshopitems")
    /\ ini = Append(original, NewLine("mods"))

(***************************************************************************)
(* C18.  The configuration file is written atomically: at every point of   *)
(* a run, also when the process is killed in the middle of the write step, *)
(* a reader of the INI path sees the complete document that was there      *)
(* before the run or the complete new document, never an empty or partly   *)
(* written one.                                                            *)
(***************************************************************************)
InRun == write_pc \in {"open", "writing", "closed", "crashed"}

C18_AtomicWrite == InRun => ini \in {original, output_lines}

\* killed after the first line of a longer text: the file holds neither
\* the old nor the new document
C18_Witness ==
    /\ write_pc = "crashed"
    /\ Len(ini) = 1
    /\ Len(output_lines) > 1
    /\ ini = SubSeq(output_lines, 1, 1)
    /\ ini # original
    /\ original # <<>>

\* the ids of the lines of the given kind, in file order
RECURSIVE IdsOfKind(_, _, _)
IdsOfKind(lines, i, kind) ==
    IF i > Len(lines) THEN <<>>
    ELSE (IF lines[i].kind = kind THEN <<lines[i].id>> ELSE <<>>)
         \o IdsOfKind(lines, i + 1, kind)

\* this step is a run that wrote mods.txt
WroteModsTxt == Len(writes') = Len(writes) + 1

(***************************************************************************)
(* C19.  rewrite_mods_txt never adds a Mod ID: every 'Mod ID:' line of a   *)
(* mods.txt it has written names a mod of mod_ids_sorted, the order it was *)
(* given; a sub-mod that a workshop item holds on disk and mods.txt does   *)
(* not list is not in the written file.                                    *)
(***************************************************************************)
C19_NoModIdAdded ==
    [][WroteModsTxt =>
          ToSet(IdsOfKind(mods_txt', 1, "mod")) \subseteq ToSet(result')]_vars

\* item 1 holds the sub-mod and mod 1, mods.txt lists mod 1 only, and the
\* file written lists mod 1 only
C19_Witness ==
    /\ rewrite_runs = 1
    /\ writes # <<>>
    /\ writes[Len(writes)].content = mods_txt
    /\ 1 \in DOMAIN workshop_to_mods
    /\ workshop_to_mods[1] = <<SubMod, 1>>
    /\ SubMod \notin ToSet(result)
    /\ IdsOfKind(mods_txt, 1, "mod") = <<1>>

(***************************************************************************)
(* C20.  Over consecutive runs every workshop ID that heads a block of     *)
(* mods.txt heads a block afterwards, and the IDs keep their order; in a   *)
(* file a run has written each ID heads one block, and an item with no     *)
(* resolved Mod ID is the header line directly followed by '---'.          *)
(***************************************************************************)
\* the workshop IDs heading the blocks of the file, each once, in order
BlockOrder(lines) == ExtendNew(<<>>, IdsOfKind(lines, 1, "workshop"), 1)

\* every header of the file whose item has no resolved mod is directly
\* followed by the separator
EmptyBlocksKept(lines, w2m, mod_ids_sorted) ==
    \A i \in 1..Len(lines) :
        (/\ lines[i].kind = "workshop"
         /\ Select(DictGet(w2m, lines[i].id), 1, ToSet(mod_ids_sorted)) = <<>>)
        => (i < Len(lines) /\ lines[i + 1] = EndLine)

C20_BlocksPreserved ==
    [][(rewrite_runs' = rewrite_runs + 1) =>
          /\ BlockOrder(mods_txt') = BlockOrder(mods_txt)
          /\ WroteModsTxt =>
                /\ IdsOfKind(mods_txt', 1, "workshop") = BlockOrder(mods_txt)
                /\ EmptyBlocksKept(mods_txt', workshop_to_mods', result')]_vars

\* item 2 is not downloaded: the first run wrote its block empty and moved
\* mod 2 to the bottom, the second run left the file as it was
C20_Witness ==
    /\ rewrite_runs = 2
    /\ exit_status = 0
    /\ Len(writes) = 1
    /\ 2 \notin DOMAIN workshop_to_mods
    /\ mods_txt = <<WorkshopLine(1), ModLine(1), EndLine, BlankLine,
                    WorkshopLine(2), EndLine, BlankLine,
                    CommentLine, ModLine(2), EndLine>>

\* the text rewrite_mods_txt writes when it writes: the blocks of the
\* listed items and the orphan section
BlockContent(wids, mod_ids_sorted, w2m) ==
    JoinLines(BlockLines(wids, 1,
                         [w \in ToSet(wids) |->
                             SortedByPos(Select(DictGet(w2m, w), 1,
                                                ToSet(mod_ids_sorted)),
                                         mod_ids_sorted)])
              \o OrphanLines(Select(mod_ids_sorted, 1,
                                    ToSet(mod_ids_sorted)
                                        \ AttributedMods(w2m))))

\* this step is the call of rewrite_mods_txt in main
RewriteStep == pc = "returned" /\ pc' = "write_ini"

\* the previous run wrote mods.txt
PrevWroteModsTxt ==
    \E i \in 1..Len(prev_writes) : prev_writes[i].path = "mods.txt"

(***************************************************************************)
(* C21.  When the text rewrite_mods_txt would write equals the text of     *)
(* mods.txt, it reports unchanged and does not write; and the call of the  *)
(* run that directly follows a run which wrote mods.txt, over the same     *)
(* cache and with the lists read from the written file, reports unchanged. *)
(***************************************************************************)
C21_NoOpWhenIdentical ==
    [][RewriteStep =>
          /\ (BlockContent(workshop_ids, result, workshop_to_mods) = mods_txt)
                => (writes' = writes /\ mods_txt' = mods_txt)
          /\ (rewrite_runs >= 1 /\ ~cache_changed /\ PrevWroteModsTxt)
                => (writes' = writes /\ mods_txt' = mods_txt)]_vars

\* mod 1 is in both items: the first run wrote it into both blocks, and
\* the second run, reading that file, wrote mods.txt again
C21_Witness ==
    /\ rewrite_runs = 1
    /\ ~cache_changed
    /\ PrevWroteModsTxt
    /\ pc = "write_ini"
    /\ writes = <<FileWrite("mods.txt", mods_txt)>>
    /\ mods_txt # prev_mods_txt
    /\ prev_mods_txt = <<WorkshopLine(2), ModLine(2), ModLine(1), EndLine,
                         BlankLine,
                         WorkshopLine(1), ModLine(SubMod), ModLine(1), EndLine>>
    /\ mods_txt = <<WorkshopLine(2), ModLine(2), ModLine(1), EndLine,
                    BlankLine,
                    WorkshopLine(1), ModLine(1), ModLine(SubMod), EndLine>>

\* the previous run ended successfully: it wrote the INI
PrevRunOk == \E i \in 1..Len(prev_writes) : prev_writes[i].path = "ini"

\* a run has ended directly after a successful run over the same cache
SecondRunEnded ==
    /\ rewrite_runs >= 1
    /\ ~cache_changed
    /\ PrevRunOk
    /\ pc \in {"done", "exit"}

(***************************************************************************)
(* C22.  Running process_mods twice in a row over an unchanged workshop    *)
(* cache leaves mods.txt and the INI file after the second run exactly as  *)
(* they were after the first, and the second run does not write mods.txt.  *)
(***************************************************************************)
C22_PipelineIdempotent ==
    SecondRunEnded =>
        /\ mods_txt = prev_mods_txt
        /\ ini = prev_ini
        /\ \A i \in 1..Len(writes) : writes[i].path # "mods.txt"

\* mod 1 of block 1 requires mod 2 of block 2: the first run wrote Mods= in
\* the order read back from the file it rewrote, the second run in the
\* sorted order; mods.txt is the same after both
C22_Witness ==
    /\ SecondRunEnded
    /\ pc = "done"
    /\ mods_txt = prev_mods_txt
    /\ result = <<SubMod, 2, 1>>
    /\ prev_ini[Len(prev_ini)].nl
    /\ Carries(prev_ini, KeyLine("mods", "Mods=", <<SubMod, 1, 2>>))
    /\ Carries(ini, KeyLine("mods", "Mods=", <<SubMod, 2, 1>>))
    /\ ini # prev_ini

\* the Mod IDs of the trailing section under the comment marker
RECURSIVE OrphanSection(_, _, _)
OrphanSection(lines, i, under) ==
    IF i > Len(lines) THEN {}
    ELSE IF lines[i].kind = "comment"
    THEN OrphanSection(lines, i + 1, TRUE)
    ELSE IF lines[i].kind \in {"end", "workshop"}
    THEN OrphanSection(lines, i + 1, FALSE)
    ELSE (IF under /\ lines[i].kind = "mod" THEN {lines[i].id} ELSE {})
         \cup OrphanSection(lines, i + 1, under)

(***************************************************************************)
(* C23.  Orphan Mod IDs are preserved: a Mod ID that stands in the         *)
(* trailing section under the comment marker when a run starts is on a     *)
(* 'Mod ID:' line of mods.txt in every later state, whatever the runs      *)
(* that parse and rewrite the file do.                                     *)
(***************************************************************************)
C23_OrphansPreserved ==
    rewrite_runs >= 1 =>
        OrphanSection(prev_mods_txt, 1, FALSE)
            \subseteq ToSet(IdsOfKind(mods_txt, 1, "mod"))

\* over an unchanged cache the first run put mod 4 under the marker, and
\* the second run wrote mods.txt again, without mod 4
C23_Witness ==
    /\ rewrite_runs = 1
    /\ ~cache_changed
    /\ pc = "done"
    /\ OrphanSection(prev_mods_txt, 1, FALSE) = {OrphanMod}
    /\ writes[1] = FileWrite("mods.txt", mods_txt)
    /\ OrphanSection(mods_txt, 1, FALSE) = {}
    /\ OrphanMod \notin ToSet(IdsOfKind(mods_txt, 1, "mod"))

\* the run ended successfully
RunSucceeded == pc = "done"

\* in the list v every listed prerequisite stands before its dependent
PrereqsFirst(v, requires) ==
    \A m \in ToSet(v) \cap DOMAIN requires :
        \A r \in (ToSet(requires[m]) \cap ToSet(v)) \ {m} :
            PosIn(v, r) < PosIn(v, m)

(***************************************************************************)
(* C28.  In every successful run of process_mods main the list of mod IDs  *)
(* written to Mods= is the order ensure_topological_order returned, so     *)
(* every prerequisite precedes its dependent in Mods=, also when mods.txt  *)
(* was rewritten in the run and the lists were read again from it.         *)
(***************************************************************************)
C28_ModsIsActivationOrder ==
    RunSucceeded =>
        /\ Carries(ini, KeyLine("mods", "Mods=", result))
        /\ \A i \in 1..Len(ini) :
              IsKey(ini[i], "mods") => PrereqsFirst(ini[i].value, requires_map)

\* mod 1 of block 1 requires mod 2 of block 2: the sort returned 3, 2, 1,
\* mods.txt was rewritten and read again, and Mods= is 3, 1, 2
C28_Witness ==
    /\ RunSucceeded
    /\ rewrite_runs = 0
    /\ DictGet(requires_map, 1) = <<2>>
    /\ result = <<SubMod, 2, 1>>
    /\ writes # <<>>
    /\ writes[1].path = "mods.txt"
    /\ Carries(ini, KeyLine("mods", "Mods=", <<SubMod, 1, 2>>))

(***************************************************************************)
(* C29.  No declared mod is dropped from the load set: every Mod ID that   *)
(* stands inside a block of mods.txt at the start of a successful run of   *)
(* process_mods is in the Mods= value the run writes, also when its item   *)
(* is not downloaded or no mod.info declares it.                           *)
(***************************************************************************)
C29_NoDeclaredModDropped ==
    /\ (pc = "returned") =>
          ToSet(result) = ToSet(parse_mods_txt(mods_txt).mod_ids)
    /\ RunSucceeded =>
          \E i \in 1..Len(writes) :
              /\ writes[i].path = "ini"
              /\ \E v \in {result, mod_ids} :
                    /\ Carries(writes[i].content, KeyLine("mods", "Mods=", v))
                    /\ ToSet(result) \subseteq ToSet(v)

\* mod 4 is listed in block 2 and declared by no mod.info: the run moved it
\* under the marker and wrote Mods= without it
C29_Witness ==
    /\ RunSucceeded
    /\ rewrite_runs = 0
    /\ OrphanMod \in ToSet(result)
    /\ OrphanMod \notin ToSet(mod_ids)
    /\ OrphanSection(mods_txt, 1, FALSE) = {OrphanMod}
    /\ Carries(ini, KeyLine("mods", "Mods=", mod_ids))

(***************************************************************************)
(* C24.  After update_server_ini has written an INI from a registry, the   *)
(* INI is covered by the registry under the rule of the test: every ID of  *)
(* Mods= is a mod ID the test takes as enabled (mod-level flag, default    *)
(* true, in an entry whose own flag, default true, is set) and every ID of *)
(* WorkshopItems= is a workshop item the test takes as enabled.            *)
(***************************************************************************)
WrittenByUpdateServerIni == step_pc \in {"updated", "tested"}

CoveredByRegistry ==
    /\ assert_subset(JoinCsv(registry_enabled_mod_ids(registry)),
                     parse_ini_mods(ini).mods)
    /\ assert_subset(JoinCsv(registry_enabled_workshop_ids(registry)),
                     parse_ini_mods(ini).workshop_items)

C24_IniCoveredByRegistry == WrittenByUpdateServerIni => CoveredByRegistry

\* update_server_ini wrote the item and the mod of an entry whose own flag
\* is "false" while the flag of its mod is "true", and the test has run
C24_Witness ==
    /\ step_pc = "tested"
    /\ Len(registry) = 1
    /\ registry[1].enabled = "false"
    /\ Len(registry[1].mods) = 1
    /\ registry[1].mods[1].enabled = "true"
    /\ parse_ini_mods(ini).workshop_items = JoinCsv(<<registry[1].workshopId>>)
    /\ parse_ini_mods(ini).mods = JoinCsv(<<registry[1].mods[1].id>>)
    /\ sync_failures = {"Mods", "WorkshopItems"}
    /\ step_exit = 1

(***************************************************************************)
(* C25.  In update_server_ini_map, if two distinct maps (distinct by map   *)
(* name or by workshop item) of the enabled items, each owned by an        *)
(* enabled mod or by no mod that can be told, claim the same world cell    *)
(* through a non-symlinked X_Y.lotheader file, the run fails with exit     *)
(* status 2 and writes neither Map= nor the spawnregions file; if no cell  *)
(* is claimed by two such maps, conflict detection does not fail.          *)
(***************************************************************************)
EnabledMods ==
    UNION {{registry[i].mods[k].id :
               k \in {j \in 1..Len(registry[i].mods) :
                         registry[i].mods[j].enabled = "true"}} :
             i \in 1..Len(registry)}

EnabledItems ==
    {registry[i].workshopId :
        i \in {j \in 1..Len(registry) :
                  \E k \in 1..Len(registry[j].mods) :
                     registry[j].mods[k].enabled = "true"}}

\* the maps of the enabled items as pairs <<item, directory>>; symlinked
\* directories are no maps of their own
MapsOfEnabledItems ==
    UNION {{<<w, map_dirs[w].dirs[i]>> :
               i \in {j \in 1..Len(map_dirs[w].dirs) : ~map_dirs[w].dirs[j].link}} :
             w \in EnabledItems}

MapsOfEnabledMods ==
    {p \in MapsOfEnabledItems : p[2].owner = NoId \/ p[2].owner \in EnabledMods}

ClaimsCell(d, c) == \E i \in 1..Len(d.lots) : ~d.lots[i].link /\ d.lots[i].coord = c

SameCellClaimed(S) ==
    \E p, q \in S :
       /\ p[1] # q[1] \/ p[2].name # q[2].name
       /\ \E c \in {Cell, OtherCell} : ClaimsCell(p[2], c) /\ ClaimsCell(q[2], c)

MapStepEnded == step_pc \in {"fatal_input", "fatal_overlap", "fatal_require", "done"}

FailsOnConflictAmong(S) ==
    MapStepEnded =>
       /\ SameCellClaimed(S) => step_exit = 2 /\ writes = <<>>
       /\ ~SameCellClaimed(S) => step_pc # "fatal_overlap"

C25_OverlapFails == FailsOnConflictAmong(MapsOfEnabledMods)

\* the statement for all maps of the enabled items, whoever owns them
C25_Original == FailsOnConflictAmong(MapsOfEnabledItems)

\* items 1 and 2 both ship a map 201 on the same cell: the run ended in
\* detect_conflicts with exit status 2 and nothing written
C25_Witness ==
    /\ step_pc = "fatal_overlap"
    /\ step_exit = 2
    /\ writes = <<>>
    /\ \E p, q \in MapsOfEnabledMods :
          /\ p[1] = 1 /\ q[1] = 2
          /\ p[2].name = q[2].name
          /\ ClaimsCell(p[2], Cell) /\ ClaimsCell(q[2], Cell)

(***************************************************************************)
(* C26.  A CLI exits 0 on success and nonzero on a failure, and the exit   *)
(* status it ends with on an input error (a required file is absent) is    *)
(* different from the one it ends with on a domain failure (dependency     *)
(* violation, cycle, fatal conflict).  Stated for process_mods over two    *)
(* invocations: when one failed on an input error and the other on a       *)
(* domain failure, their exit statuses differ.                             *)
(***************************************************************************)
InputErrorKinds == {"mods_txt_not_found", "ini_not_found"}

DomainFailureKinds == {"missing", "cycle", "tiledef_conflict"}

OneOfEachClass ==
    \/ prev_failure \in InputErrorKinds /\ error.kind \in DomainFailureKinds
    \/ prev_failure \in DomainFailureKinds /\ error.kind \in InputErrorKinds

C26_ExitCodesDistinguishFailures ==
    /\ pc = "done" => exit_status = 0
    /\ pc = "exit" => exit_status # 0
    /\ (pc = "exit" /\ OneOfEachClass) => exit_status # prev_exit

\* the first invocation found no mods.txt, the second found a dependency
\* cycle, and both ended with exit status 1
C26_Witness ==
    /\ pc = "exit"
    /\ prev_failure = "mods_txt_not_found"
    /\ prev_exit = 1
    /\ error.kind = "cycle"
    /\ exit_status = 1

(***************************************************************************)
(* C30.  In a download run that is no dry run and has a non-empty plan,    *)
(* every planned workshop ID is handed to steamcmd at most once (a failed  *)
(* or timed-out download is not tried again, an ID already on disk is not  *)
(* downloaded), every planned ID ends in exactly one of the completed and  *)
(* the failed list, and the exit status is 1 exactly when the failed list  *)
(* is not empty and 0 otherwise.                                           *)
(***************************************************************************)
Occurrences(s, x) == Cardinality({i \in 1..Len(s) : s[i] = x})

Attempted == attempts' # attempts

RunEnded == step_pc \in {"done", "crashed"}

ListsAndExit ==
    /\ \A w \in ToSet(attempts) : Occurrences(attempts, w) = 1
    /\ ToSet(attempts) \subseteq ToSet(to_install)
    /\ RunEnded =>
          /\ \A w \in ToSet(to_install) :
                Occurrences(installed, w) + Occurrences(failed, w) = 1
          /\ ToSet(installed) \cup ToSet(failed) = ToSet(to_install)
          /\ step_exit = (IF failed # <<>> THEN 1 ELSE 0)

C30_EachPlannedIdOnce ==
    /\ []ListsAndExit
    /\ [][Attempted => attempts'[Len(attempts')] \notin on_disk]_vars

\* the registry names no contentRoot: item 1, already on disk, was handed
\* to steamcmd, which could not be executed; the run ended with exit status
\* 1, an empty failed list and both planned IDs in neither list
C30_Witness ==
    /\ step_pc = "crashed"
    /\ to_install = <<1, 2>>
    /\ content_root = "unset"
    /\ 1 \in on_disk
    /\ attempts = <<1>>
    /\ installed = <<>>
    /\ failed = <<>>
    /\ step_exit = 1

(***************************************************************************)
(* C27.  Symlinked directories and files are ignored at every enumeration  *)
(* point of the on-disk scan: a map folder or a .lotheader file reached    *)
(* only through a symlink never adds a map name to Map= and never adds a   *)
(* coordinate claim, in update_server_ini_map and in process_mods          *)
(* (collect_workshop_maps, check_map_coord_conflicts).                     *)
(***************************************************************************)
\* the names of the map folders that are directories of their own
RealMapNames ==
    UNION {{map_dirs[w].dirs[i].name :
               i \in {j \in 1..Len(map_dirs[w].dirs) : ~map_dirs[w].dirs[j].link}} :
             w \in DOMAIN map_dirs}

\* the items that claim cell c through a file of their own in a folder of
\* their own
RealClaimants(c) ==
    {w \in DOMAIN map_dirs :
        \E i \in 1..Len(map_dirs[w].dirs) :
           ~map_dirs[w].dirs[i].link /\ ClaimsCell(map_dirs[w].dirs[i], c)}

MapKeyNames ==
    UNION {ToSet(ini[i].value) : i \in {j \in 1..Len(ini) : ini[j].key = "map"}}

C27_SymlinksIgnored ==
    /\ (pc = "done" \/ step_pc = "done") =>
          MapKeyNames \subseteq ToSet(VANILLA_MAPS) \cup RealMapNames
    /\ \A i \in 1..Len(claims) :
          \E k \in 1..Len(map_dirs[claims[i].workshop_id].dirs) :
             LET d == map_dirs[claims[i].workshop_id].dirs[k]
             IN  ~d.link /\ d.name = claims[i].map_name /\ ClaimsCell(d, claims[i].cell)
    /\ \A c \in DOMAIN map_coord_conflicts : Cardinality(RealClaimants(c)) >= 2

\* process_mods ended with the name of the lower-case link 301 in Map=
C27_Witness ==
    /\ pc = "done"
    /\ 301 \in MapKeyNames
    /\ 301 \notin RealMapNames

\* process_mods reports a conflict on a cell that one item claims through a
\* symlinked .lotheader file only
C27_LinkedLotheaderCounted ==
    /\ pc = "done"
    /\ Cell \in DOMAIN map_coord_conflicts
    /\ Cardinality(RealClaimants(Cell)) < 2

\* update_server_ini_map alone keeps to the statement
C27_MapStepIgnoresSymlinks ==
    step_pc # "idle" => C27_SymlinksIgnored

====
